---- MODULE Spec2Model ----
(***************************************************************************)
(* Model of the acquisition pipeline of eodh-workflows                     *)
(* (src/workflows/ds/utils.py and src/workflows/ds/utils_sentinelhub.py):  *)
(* download_search_results fans the retained assets of each item out to a  *)
(* dask pool, download_sentinel_hub issues one process-API request per     *)
(* item; both rewrite the item and persist it as JSON.                     *)
(* Modelled on their own: prepare_data_array and query (the errors of an   *)
(* unsupported input), geojson_to_polygon, merge_stac_catalogs.            *)
(***************************************************************************)
EXTENDS Integers, Sequences, FiniteSets, TLC

VARIABLES
    mode,           \* which driver runs: "search" (download_search_results),
                    \* "sh" (utils.download_sentinel_hub),
                    \* "sh_legacy" (utils_sentinelhub.download_sentinel_hub)
    clip,           \* the clip argument
    aoi,            \* the aoi argument (a rectangle)
    asset_rename,   \* the asset_rename argument (a partial map key -> key)
    width,          \* threads of the pool that run tasks at the same time
    items,          \* the items argument, in the caller's order
    items0,         \* history: the items as the caller handed them over
    pc,             \* position of the driver
    queue,          \* sorted(items, key=datetime), the sequence the loop walks
    idx,            \* index in queue of the item being processed
    item_modified,  \* item.to_dict() of the current item, as rewritten so far
    tasks,          \* asset key -> state of the dask task of that asset
    cluster,        \* LocalCluster objects: how many were created, how many are alive
    sh,             \* retry state of _download_sh_item for the current item
    files,          \* raster files on disk: path -> "partial" | "complete"
    docs,           \* item JSON files on disk: path -> written item dict
    results,        \* the list of item paths collected so far
    error,          \* the exception that left the driver, if any
    dispatched,     \* history: assets handed to a fetch task, with their item id
    failed,         \* history: ids of the items whose fetch ended in a terminal error
    writes,         \* history: raster paths opened for writing, with the writing task
    run,            \* which invocation over the same output directory this is
    snapshot,       \* history: what the previous invocation left behind
    sizes,          \* raster files on disk: path -> bytes left by earlier writers, bytes of the last
    sh_posts,       \* history: the POST requests sent to the process API
    call,           \* a call of prepare_data_array or of query: arguments, position, retry state
    geojson,        \* the argument of geojson_to_polygon
    polygon,        \* what geojson_to_polygon returned or raised
    catalogs,       \* the two catalogs merge_stac_catalogs reads
    jpc,            \* position of merge_stac_catalogs
    jidx,           \* index of the item its current loop is at
    out_fs,         \* files under output_dir: path -> the source file copied there last
    merged,         \* merged_catalog: the items added so far
    saved,          \* the catalog written under output_dir
    joincall,       \* a call of join or join_v2: arguments, position, the output directory
    split,          \* a call of split_s2_ard_cogs_into_separate_assets: position, retry state, disk
    clipjob         \* a call of clip_stac_items: the catalog read, position, the catalog written

\* the arguments no step of the driver assigns
args == <<mode, clip, aoi, asset_rename, width, items0>>

\* what only a new invocation changes
invocation == <<run, snapshot>>

\* the state of the acquisition drivers
pipeline == <<args, invocation, items, pc, queue, idx, item_modified,
              tasks, cluster, sh, files, docs, results, error, dispatched, failed, writes,
              sizes, sh_posts>>

\* the state of the functions modelled on their own
library == <<call, geojson, polygon, catalogs, jpc, jidx, out_fs, merged, saved,
             joincall, split, clipjob>>

vars == <<pipeline, library>>

-----------------------------------------------------------------------------
(* Bounds of the model *)

MaxItems == 2       \* longest items collection
MaxTime == 2        \* acquisition timestamps are 1..MaxTime
Grid == 3           \* rectangles have integer corners in 0..Grid
MaxRuns == 2        \* invocations over one output directory
MaxAssets == 2      \* longest assets list of prepare_data_array
RingGrid == 2       \* ring vertices have integer coordinates in 0..RingGrid
JoinIds == 3        \* item ids the catalogs to merge draw from
MaxCatalogs == 3    \* most catalog directories passed to join_v2
MaxSplitFiles == 3  \* longest list of item files passed to the split
MaxClipItems == 2   \* most items of a catalog to clip
CogBands == 3       \* bands of a Sentinel-2 ARD COG (10 in the program, scaled down)
PoolWidth == 2      \* widest pool (N_WORKERS * THREADS_PER_WORKER, scaled down)
ContentLength == 2  \* bytes of a remote file; a broken stream delivers fewer

-----------------------------------------------------------------------------
(* Program constants *)

TRIES == 3
DELAY == 3
BACKOFF == 2
HTTP_OK == 200

NONE == "<None>"
COG_MEDIA_TYPE == "image/tiff; application=geotiff; profile=cloud-optimized"
RASTER_MEDIA_TYPES == {COG_MEDIA_TYPE, "tif", "tiff", "geotiff", "cog"}

-----------------------------------------------------------------------------
(* Strings, paths and hrefs *)

\* str.lower() on the strings the model draws
Lower(s) ==
    CASE s = "TIF" -> "tif"
      [] s = "Tiff" -> "tiff"
      [] s = "GeoTIFF" -> "geotiff"
      [] s = "COG" -> "cog"
      [] s = "IMAGE/TIFF; APPLICATION=GEOTIFF; PROFILE=CLOUD-OPTIMIZED" -> COG_MEDIA_TYPE
      [] OTHER -> s

\* output_dir / "source_data" / item.id
ItemOutputDir(id) == <<"source_data", id>>

AssetFilenameShared(id, asset_key) == [dir |-> ItemOutputDir(id), stem |-> "asset", suffix |-> "tif"]

AssetFilenamePerRun(id, asset_key) ==
    [dir |-> ItemOutputDir(id), stem |-> IF run = 1 THEN asset_key ELSE "rerun", suffix |-> "tif"]

\* item_output_dir / f"{asset_key}.tif"
AssetFilename(id, asset_key) == [dir |-> ItemOutputDir(id), stem |-> asset_key, suffix |-> "tif"]

\* item_output_dir / f"{item.id}.json"
ItemPath(id) == [dir |-> ItemOutputDir(id), stem |-> id, suffix |-> "json"]

\* item_output_dir / "data.tif"
DataTifPath(id) == [dir |-> ItemOutputDir(id), stem |-> "data", suffix |-> "tif"]

\* Path.as_posix(): the href string of a local path
AsPosix(p) == [scheme |-> "", dir |-> p.dir, stem |-> p.stem, suffix |-> p.suffix]

\* a remote href https://host/<stem>.<suffix>
RemoteHref(stem, suffix) == [scheme |-> "https", dir |-> <<"host", "data">>, stem |-> stem, suffix |-> suffix]

\* Path(asset.href).suffix.replace(".", "")
HrefSuffix(href) == href.suffix

-----------------------------------------------------------------------------
(* Geometry on integer rectangles *)

EmptyGeometry == [empty |-> TRUE, x1 |-> 0, y1 |-> 0, x2 |-> 0, y2 |-> 0]

Rect(x1, y1, x2, y2) == [empty |-> FALSE, x1 |-> x1, y1 |-> y1, x2 |-> x2, y2 |-> y2]

Rects == {Rect(x1, y1, x2, y2) : x1 \in 0..Grid, y1 \in 0..Grid, x2 \in 0..Grid, y2 \in 0..Grid}
Polygons == {r \in Rects : r.x1 < r.x2 /\ r.y1 < r.y2}

Max(a, b) == IF a >= b THEN a ELSE b
Min(a, b) == IF a <= b THEN a ELSE b

\* shapely: a.intersection(b); rectangles that only touch meet in a segment or a point
Intersection(a, b) ==
    IF a.empty \/ b.empty THEN EmptyGeometry
    ELSE LET x1 == Max(a.x1, b.x1)
             y1 == Max(a.y1, b.y1)
             x2 == Min(a.x2, b.x2)
             y2 == Min(a.y2, b.y2)
         IN  IF x1 <= x2 /\ y1 <= y2 THEN Rect(x1, y1, x2, y2) ELSE EmptyGeometry

\* shapely: geometry.bounds; the bounds of an empty geometry are four NaN
\* (an empty tuple before shapely 2), in neither case a box
Bounds(g) == [nan |-> g.empty, box |-> <<g.x1, g.y1, g.x2, g.y2>>]

-----------------------------------------------------------------------------
(* Ordered dicts of assets: sequences of entries with pairwise distinct keys *)

\* dict.pop(key)
DictPop(d, key) == SelectSeq(d, LAMBDA e : e.key # key)

\* dict[key] = value: an existing key keeps its place, a new key goes last
DictSet(d, key, value) ==
    LET entry == [value EXCEPT !.key = key]
    IN  IF \E i \in DOMAIN d : d[i].key = key
        THEN [i \in DOMAIN d |-> IF d[i].key = key THEN entry ELSE d[i]]
        ELSE Append(d, entry)

DictKeys(d) == {d[i].key : i \in DOMAIN d}

DictGet(d, key) == d[CHOOSE i \in DOMAIN d : d[i].key = key]

\* asset_rename.get(asset_key, asset_key)
RenameGet(rename, asset_key) == IF asset_key \in DOMAIN rename THEN rename[asset_key] ELSE asset_key

-----------------------------------------------------------------------------
(* sorted(items, key=lambda x: x.datetime): a stable sort *)

RECURSIVE InsertByDatetime(_, _)
InsertByDatetime(s, x) ==
    IF s = <<>> THEN <<x>>
    ELSE IF s[Len(s)].datetime <= x.datetime
         THEN Append(s, x)
         ELSE Append(InsertByDatetime(SubSeq(s, 1, Len(s) - 1), x), s[Len(s)])

RECURSIVE UnstableSorted(_)
UnstableSorted(s) ==
    IF s = <<>> THEN <<>>
    ELSE LET rest == UnstableSorted(SubSeq(s, 1, Len(s) - 1))
             x == s[Len(s)]
             before == SelectSeq(rest, LAMBDA e : e.datetime < x.datetime)
             after == SelectSeq(rest, LAMBDA e : e.datetime >= x.datetime)
         IN  before \o <<x>> \o after

RECURSIVE SortedByDatetime(_)
SortedByDatetime(s) ==
    IF s = <<>> THEN <<>>
    ELSE InsertByDatetime(SortedByDatetime(SubSeq(s, 1, Len(s) - 1)), s[Len(s)])

-----------------------------------------------------------------------------
(* The filter of non-raster assets *)

\* asset.media_type or Path(asset.href).suffix.replace(".", "")
MediaTypeOf(asset) ==
    IF asset.media_type \in {NONE, ""} THEN HrefSuffix(asset.href) ELSE asset.media_type

IsRasterAnyField(asset) ==
    \/ Lower(asset.media_type) \in RASTER_MEDIA_TYPES
    \/ Lower(HrefSuffix(asset.href)) \in RASTER_MEDIA_TYPES

\* media_type.lower() in {...}
IsRaster(asset) == Lower(MediaTypeOf(asset)) \in RASTER_MEDIA_TYPES

\* the loop that pops the non-raster assets from item_modified["assets"]
RECURSIVE FilterAssets(_, _)
FilterAssets(modified_assets, item_assets) ==
    IF item_assets = <<>> THEN modified_assets
    ELSE LET asset == Head(item_assets)
         IN  FilterAssets(IF IsRaster(asset) THEN modified_assets
                          ELSE DictPop(modified_assets, asset.key),
                          Tail(item_assets))

\* the geometry and bbox of item_modified: replaced by the intersection when clipping
ClipItem(item, do_clip, area) ==
    IF do_clip
    THEN [item EXCEPT !.geometry = Intersection(item.geometry, area),
                      !.bbox = Bounds(Intersection(item.geometry, area))]
    ELSE item

\* item.to_dict(), the geometry adjustment and the filter: the head of the loop body
PrepareItem(item, do_clip, area) ==
    LET clipped == ClipItem(item, do_clip, area)
    IN  [clipped EXCEPT !.assets = FilterAssets(clipped.assets, item.assets)]

-----------------------------------------------------------------------------
(* retry(tries=3, delay=3, backoff=2) *)

NoError == [kind |-> "none", status |-> 0, text |-> "", attempt |-> 0]

\* state of one retried call before its first attempt
RetryInit(tries) == [tries |-> tries, delay |-> DELAY, calls |-> 0, waits |-> <<>>, exc |-> NoError]

RetryOnFailureAdditive(r, exc) ==
    LET left == r.tries - 1
    IN  IF left = 0
        THEN [r EXCEPT !.tries = 0, !.calls = @ + 1, !.exc = exc]
        ELSE [r EXCEPT !.tries = left, !.calls = @ + 1, !.exc = exc,
                       !.waits = Append(@, r.delay), !.delay = @ + BACKOFF]

\* a failed attempt: _tries -= 1; re-raise when none is left, else sleep(_delay); _delay *= backoff
RetryOnFailure(r, exc) ==
    LET left == r.tries - 1
    IN  IF left = 0
        THEN [r EXCEPT !.tries = 0, !.calls = @ + 1, !.exc = exc]
        ELSE [r EXCEPT !.tries = left, !.calls = @ + 1, !.exc = exc,
                       !.waits = Append(@, r.delay), !.delay = @ * BACKOFF]

\* a successful attempt returns at once
RetryOnSuccess(r) == [r EXCEPT !.calls = @ + 1]

-----------------------------------------------------------------------------
(* Items and assets *)

\* a remote asset of an item: key, href, declared media type (NONE when absent)
\* and the projection fields proj:shape, proj:transform, proj:epsg taken as one
Asset(key, media_type, suffix) ==
    [key |-> key, href |-> RemoteHref(key, suffix), media_type |-> media_type, proj |-> "source"]

SourceProperties == [proj_epsg |-> NONE, proj_bbox |-> TRUE, proj_geometry |-> TRUE]

Item(id, datetime, geometry, assets) ==
    [id |-> id, datetime |-> datetime, geometry |-> geometry, bbox |-> Bounds(geometry),
     assets |-> assets, properties |-> SourceProperties]

NoItem == Item("", 0, EmptyGeometry, <<>>)

EmptyMap == [k \in {} |-> k]

ItemIds == <<"item1", "item2", "item3", "item4">>

Modes == {"search", "sh", "sh_legacy"}
ShModes == {"sh", "sh_legacy"}

\* the asset maps of the items of a general run: no asset, one raster and one
\* non-raster asset, two raster assets
CoreAssetMaps ==
    { <<>>,
      <<Asset("GeoTIFF", COG_MEDIA_TYPE, "tif"), Asset("thumbnail", "image/png", "png")>>,
      <<Asset("GeoTIFF", COG_MEDIA_TYPE, "tif"), Asset("data", NONE, "tif")>> }

CoreFootprint == Rect(0, 0, 1, 1)
CoreAoi == Rect(0, 0, 1, 1)

NoRename == EmptyMap
\* {"GeoTIFF": "data"} is the map handle_esa_cci_glc_query passes
Renames == {NoRename, [k \in {"GeoTIFF"} |-> "data"], [k \in {"data"} |-> "GeoTIFF"]}

CoreItemSeqs ==
    UNION { { [i \in 1..n |-> Item(ItemIds[i], t[i], CoreFootprint, a[i])] :
                t \in [1..n -> 1..MaxTime], a \in [1..n -> CoreAssetMaps] } : n \in 0..MaxItems }

MediaTypes ==
    {NONE, "", COG_MEDIA_TYPE, "IMAGE/TIFF; APPLICATION=GEOTIFF; PROFILE=CLOUD-OPTIMIZED",
     "image/tiff", "image/png", "COG"}
Suffixes == {"tif", "TIF", "tiff", "geotiff", "cog", "json", "png", ""}

FilterItemSeqs ==
    { <<Item(ItemIds[1], 1, CoreFootprint, <<Asset("band", m, s)>>)>> : m \in MediaTypes, s \in Suffixes }

GeomItemSeqs ==
    { <<Item(ItemIds[1], 1, fp, <<Asset("GeoTIFF", COG_MEDIA_TYPE, "tif")>>)>> : fp \in Polygons }

\* one or two items acquired one after the other
RerunItemSeqs ==
    UNION { { [i \in 1..n |-> Item(ItemIds[i], i, CoreFootprint, a[i])] :
                a \in [1..n -> CoreAssetMaps] } : n \in 1..2 }

\* the arguments of a general run
InitCore ==
    /\ mode \in Modes
    /\ clip \in BOOLEAN
    /\ aoi = CoreAoi
    /\ asset_rename \in (IF mode = "search" THEN Renames ELSE {NoRename})
    /\ width \in (IF mode = "search" THEN 1..PoolWidth ELSE {1})
    /\ items \in CoreItemSeqs

\* the arguments of a run over one item with one asset of any media type and extension
InitFilter ==
    /\ mode \in Modes
    /\ clip = FALSE
    /\ aoi = CoreAoi
    /\ asset_rename = NoRename
    /\ width = 1
    /\ items \in FilterItemSeqs

\* the arguments of a clipping run over one item with any footprint and any AOI
InitGeom ==
    /\ mode \in Modes
    /\ clip = TRUE
    /\ aoi \in Polygons
    /\ asset_rename = NoRename
    /\ width = 1
    /\ items \in GeomItemSeqs

NoResponse == [status |-> 0, text |-> ""]

\* what the process API may answer: the COG, or an error status with its body
Responses ==
    { [status |-> HTTP_OK, text |-> ""],
      [status |-> 403, text |-> "Forbidden"],
      [status |-> 500, text |-> "Internal Server Error"] }

\* utils._download_sh_item is decorated with retry(tries=3, delay=3, backoff=2),
\* utils_sentinelhub._download_sh_item is not decorated: a single try
ShTries(m) == IF m = "sh" THEN TRIES ELSE 1

\* no LocalCluster has been created yet
NoCluster == [created |-> 0, alive |-> 0]

\* "with LocalCluster(...)": entering the block creates a cluster
OpenCluster(c) == [created |-> c.created + 1, alive |-> c.alive + 1]

LeakCluster(c) == c

\* leaving the with block, normally or by an exception, closes the cluster
CloseCluster(c) == [c EXCEPT !.alive = @ - 1]

\* before the first invocation nothing was left behind
NoSnapshot == [pc |-> "", files |-> {}, docs |-> EmptyMap, results |-> <<>>]

\* the state of the driver at its entry
Entry ==
    /\ pc = "start"
    /\ queue = <<>>
    /\ idx = 0
    /\ item_modified = NoItem
    /\ tasks = EmptyMap
    /\ cluster = NoCluster
    /\ sh = [retry |-> RetryInit(ShTries(mode)), response |-> NoResponse]
    /\ results = <<>>
    /\ error = NoError
    /\ dispatched = {}
    /\ failed = {}
    /\ writes = {}
    /\ sh_posts = {}

\* no acquisition is under way
PipelineIdle ==
    /\ mode = "search"
    /\ clip = FALSE
    /\ aoi = CoreAoi
    /\ asset_rename = NoRename
    /\ width = 1
    /\ items = <<>>
    /\ items0 = <<>>
    /\ run = 1
    /\ snapshot = NoSnapshot
    /\ files = EmptyMap
    /\ sizes = EmptyMap
    /\ docs = EmptyMap
    /\ Entry

NoCall ==
    [fn |-> "", collection |-> "", assets |-> <<>>, pc |-> "idle", retry |-> RetryInit(1),
     error |-> NoError, result |-> <<>>,
     stage |-> "", inner |-> RetryInit(1), fetches |-> [cog |-> 0, cloud |-> 0]]

CallIdle == call = NoCall

NoGeojson == [type |-> "", coordinates |-> <<>>]

NoPolygon == [status |-> "", message |-> "", exterior |-> <<>>]

GeojsonIdle ==
    /\ geojson = NoGeojson
    /\ polygon = NoPolygon

JoinIdle ==
    /\ catalogs = <<>>
    /\ jpc = "idle"
    /\ jidx = 0
    /\ out_fs = EmptyMap
    /\ merged = <<>>
    /\ saved = <<>>

\* the output directory of a join before anything is written under it
NoOutputDir == [exists |-> FALSE, entries |-> {}]

NoJoinCall ==
    [fn |-> "", dirs |-> <<>>, path |-> "", pc |-> "idle", k |-> 0, error |-> "",
     before |-> NoOutputDir, output_dir |-> NoOutputDir]

JoinCallIdle == joincall = NoJoinCall

\* an item JSON as the split reads it: whether it has the "cog" asset, how many band assets
NoSplitItem == [cog |-> FALSE, bands |-> 0]

NoSplit ==
    [pc |-> "idle", retry |-> RetryInit(1), error |-> NoError, faults |-> 0, f |-> 0, band |-> 0,
     item |-> NoSplitItem, docs |-> <<>>, cogs |-> <<>>, tifs |-> <<>>]

SplitIdle == split = NoSplit

NoClipJob ==
    [module |-> "", pc |-> "idle", area |-> EmptyGeometry, input |-> <<>>, items |-> <<>>,
     i |-> 0, a |-> 0, clipped |-> {}, saved |-> <<>>]

ClipIdle == clipjob = NoClipJob

\* none of the functions modelled on their own is called
LibraryIdle ==
    /\ CallIdle
    /\ GeojsonIdle
    /\ JoinIdle
    /\ JoinCallIdle
    /\ SplitIdle
    /\ ClipIdle

Init ==
    /\ (InitCore \/ InitFilter \/ InitGeom)
    /\ LibraryIdle
    /\ items0 = items
    /\ run = 1
    /\ snapshot = NoSnapshot
    /\ files = EmptyMap
    /\ sizes = EmptyMap
    /\ docs = EmptyMap
    /\ Entry

-----------------------------------------------------------------------------
(* download_search_results *)

\* entry of the driver: the items are sorted once, before the loop
Start ==
    /\ pc = "start"
    /\ queue' = SortedByDatetime(items)
    /\ idx' = 1
    /\ pc' = "loop"
    /\ UNCHANGED <<library, args, sizes, sh_posts, invocation, writes, items, item_modified, tasks, cluster, sh,
                   files, docs, results, error, dispatched, failed>>

\* head of the loop body: to_dict, geometry, filter, then the cluster is
\* started and one task per retained asset is put in the bag
BeginItem ==
    /\ pc = "loop"
    /\ mode = "search"
    /\ idx <= Len(queue)
    /\ LET item == queue[idx]
           prepared == PrepareItem(item, clip, aoi)
       IN  /\ item_modified' = prepared
           /\ tasks' = [k \in DictKeys(prepared.assets) |->
                          [status |-> "pending", retry |-> RetryInit(TRIES),
                           asset |-> DictGet(prepared.assets, k)]]
           /\ dispatched' = dispatched \cup
                            {[item |-> item.id, asset |-> prepared.assets[i]] : i \in DOMAIN prepared.assets}
    /\ cluster' = OpenCluster(cluster)
    /\ pc' = "pool"
    /\ UNCHANGED <<library, args, sizes, sh_posts, invocation, writes, items, queue, idx, sh, files, docs,
                   results, error, failed>>

Running(ts) == {k \in DOMAIN ts : ts[k].status = "running"}

\* how one attempt of a download ends: the file is written, the request fails
\* before the output file is opened, or the stream breaks while it is written
Outcomes == {"ok", "http_error", "io_error"}

\* an output file that has just been opened and holds nothing
NoBytes == [stale |-> 0, fresh |-> 0]

OpenAppend(sz, path) ==
    IF path \in DOMAIN sz THEN [stale |-> sz[path].stale + sz[path].fresh, fresh |-> 0] ELSE NoBytes

\* output_path.open("wb"), rasterio.open(output_path, "w"): the file is created or truncated
OpenWb(sz, path) == NoBytes

\* the file at path after it has been opened and n bytes have been written to it
Written(sz, path, n) ==
    [p \in DOMAIN sz \cup {path} |-> IF p = path THEN [OpenWb(sz, path) EXCEPT !.fresh = n] ELSE sz[p]]

DownloadAssetHrefFirst(asset, path, clipped, outcome) ==
    [asset EXCEPT !.href = AsPosix(path), !.proj = IF clipped THEN "clipped" ELSE @]

\* the asset record after one attempt of download_asset (download_and_clip_asset when
\* clipped): href and the proj fields are assigned after the output file is closed
DownloadAsset(asset, path, clipped, outcome) ==
    IF outcome = "ok"
    THEN [asset EXCEPT !.href = AsPosix(path), !.proj = IF clipped THEN "clipped" ELSE @]
    ELSE asset

\* a free worker thread picks up a pending task
TaskStart(k) ==
    /\ pc = "pool"
    /\ k \in DOMAIN tasks
    /\ tasks[k].status = "pending"
    /\ Cardinality(Running(tasks)) < width
    /\ tasks' = [tasks EXCEPT ![k].status = "running"]
    /\ UNCHANGED <<library, args, sizes, sh_posts, invocation, writes, items, pc, queue, idx, item_modified,
                   cluster, sh, files, docs, results, error, dispatched, failed>>

\* one attempt of download_asset / download_and_clip_asset inside handle_single_asset_dask:
\* it succeeds, fails before the output file is opened, or fails while writing it
TaskAttempt(k) ==
    /\ pc = "pool"
    /\ k \in DOMAIN tasks
    /\ tasks[k].status = "running"
    /\ LET path == AssetFilename(item_modified.id, k)
           t == tasks[k]
       IN  \E outcome \in Outcomes :
             IF outcome = "ok"
             THEN /\ files' = [p \in DOMAIN files \cup {path} |->
                                 IF p = path THEN "complete" ELSE files[p]]
                  /\ sizes' = Written(sizes, path, ContentLength)
                  /\ writes' = writes \cup {[path |-> path, item |-> item_modified.id, key |-> k]}
                  /\ tasks' = [tasks EXCEPT ![k] =
                                 [status |-> "finished",
                                  retry |-> RetryOnSuccess(t.retry),
                                  asset |-> DownloadAsset(t.asset, path, clip, outcome)]]
                  /\ UNCHANGED failed
             ELSE LET exc == [kind |-> outcome, status |-> 0, text |-> "",
                              attempt |-> t.retry.calls + 1]
                      r == RetryOnFailure(t.retry, exc)
                  IN  /\ files' = IF outcome = "io_error"
                                  THEN [p \in DOMAIN files \cup {path} |->
                                          IF p = path THEN "partial" ELSE files[p]]
                                  ELSE files
                      /\ IF outcome = "io_error"
                         THEN \E n \in 0..(ContentLength - 1) : sizes' = Written(sizes, path, n)
                         ELSE UNCHANGED sizes
                      /\ writes' = IF outcome = "io_error"
                                   THEN writes \cup {[path |-> path, item |-> item_modified.id, key |-> k]}
                                   ELSE writes
                      /\ tasks' = [tasks EXCEPT ![k] =
                                     [t EXCEPT !.retry = r,
                                               !.asset = DownloadAsset(t.asset, path, clip, outcome),
                                               !.status = IF r.tries = 0 THEN "error" ELSE "running"]]
                      /\ failed' = IF r.tries = 0 THEN failed \cup {item_modified.id} ELSE failed
    /\ UNCHANGED <<library, args, sh_posts, invocation, items, pc, queue, idx, item_modified,
                   cluster, sh, docs, results, error, dispatched>>

\* compute() re-raises the exception of a failed task; leaving the with block
\* closes the cluster, which ends the tasks that are still pending or running
ComputeRaise ==
    /\ pc = "pool"
    /\ \E k \in DOMAIN tasks :
         /\ tasks[k].status = "error"
         /\ error' = tasks[k].retry.exc
    /\ tasks' = [k \in DOMAIN tasks |->
                   IF tasks[k].status \in {"pending", "running"}
                   THEN [tasks[k] EXCEPT !.status = "cancelled"]
                   ELSE tasks[k]]
    /\ cluster' = CloseCluster(cluster)
    /\ pc' = "raised"
    /\ UNCHANGED <<library, args, sizes, sh_posts, invocation, writes, items, queue, idx, item_modified, sh,
                   files, docs, results, dispatched, failed>>

NoneAwaited(ts) == TRUE

AnyResolved(ts) == \A k \in DOMAIN ts : ts[k].status \in {"finished", "error"}

\* compute() returns once every task has returned its (asset_key, asset) pair
AllFinished(ts) == \A k \in DOMAIN ts : ts[k].status = "finished"

\* the list compute() returns: one (asset_key, asset) pair per bag element, in bag order
AssetsRecords(bag, ts) == [i \in DOMAIN bag |-> [key |-> bag[i].key, asset |-> ts[bag[i].key].asset]]

\* the loop "Replace assets": pop the key, store the asset under its new name
RECURSIVE ReplaceAssets(_, _, _)
ReplaceAssets(assets, records, rename) ==
    IF records = <<>> THEN assets
    ELSE LET rec == Head(records)
         IN  ReplaceAssets(DictSet(DictPop(assets, rec.key), RenameGet(rename, rec.key), rec.asset),
                           Tail(records), rename)

\* tail of the loop body: the cluster is closed, the assets are replaced, the
\* item JSON is written and its path is appended to the results
FinishItem ==
    /\ pc = "pool"
    /\ AllFinished(tasks)
    /\ LET records == AssetsRecords(item_modified.assets, tasks)
           doc == [item_modified EXCEPT !.assets = ReplaceAssets(@, records, asset_rename)]
           item_path == ItemPath(item_modified.id)
       IN  /\ docs' = [p \in DOMAIN docs \cup {item_path} |-> IF p = item_path THEN doc ELSE docs[p]]
           /\ results' = Append(results, item_path)
    /\ cluster' = CloseCluster(cluster)
    /\ tasks' = EmptyMap
    /\ item_modified' = NoItem
    /\ idx' = idx + 1
    /\ pc' = "loop"
    /\ UNCHANGED <<library, args, sizes, sh_posts, invocation, writes, items, queue, sh, files, error,
                   dispatched, failed>>

\* the loop is exhausted: return results
Return ==
    /\ pc = "loop"
    /\ idx > Len(queue)
    /\ pc' = "returned"
    /\ UNCHANGED <<library, args, sizes, sh_posts, invocation, writes, items, queue, idx, item_modified, tasks,
                   cluster, sh, files, docs, results, error, dispatched, failed>>

-----------------------------------------------------------------------------
(* download_sentinel_hub *)

ErrorMessageStatusOnly(response, attempt) ==
    [kind |-> "HTTPError", status |-> response.status, text |-> "", attempt |-> attempt]

\* requests.HTTPError(f"Error: {response.status_code}, : {response.text}")
ErrorMessage(response, attempt) ==
    [kind |-> "HTTPError", status |-> response.status, text |-> response.text, attempt |-> attempt]

ShPayloadFootprint(item, area) ==
    [bbox |-> item.bbox.box, from |-> item.datetime, to |-> item.datetime]

\* the payload of the request: input.bounds.bbox and the dataFilter's timeRange
ShPayload(item, area) ==
    [bbox |-> Bounds(area).box, from |-> item.datetime, to |-> item.datetime]

\* the asset stored under "data"; its title, roles and classification:classes are left out
DataAsset(downloaded_path) ==
    [key |-> "data", href |-> AsPosix(downloaded_path), media_type |-> NONE, proj |-> "source"]

\* item.to_dict() puts item.properties itself, not a copy, in the dict it returns:
\* what is assigned to or popped from item_modified["properties"] also lands in the
\* item of that id the caller holds
SharedProperties(its, id, properties) ==
    [i \in DOMAIN its |-> IF its[i].id = id THEN [its[i] EXCEPT !.properties = properties] ELSE its[i]]

\* proj:epsg is set, proj:bbox and proj:geometry are popped
AdjustProperties(properties) ==
    [properties EXCEPT !.proj_epsg = "WGS84", !.proj_bbox = FALSE, !.proj_geometry = FALSE]

\* head of the loop body: to_dict, geometry, filter; then _download_sh_item is called
BeginItemSh ==
    /\ pc = "loop"
    /\ mode \in ShModes
    /\ idx <= Len(queue)
    /\ item_modified' = PrepareItem(queue[idx], clip, aoi)
    /\ sh' = [retry |-> RetryInit(ShTries(mode)), response |-> NoResponse]
    /\ pc' = "sh_fetch"
    /\ UNCHANGED <<library, args, sizes, sh_posts, invocation, writes, items, queue, idx, tasks, cluster, files,
                   docs, results, error, dispatched, failed>>

\* one attempt of _download_sh_item and, when it returns, the rest of the loop
\* body: the "data" asset, the properties, the item JSON, the results
ShRequest ==
    /\ pc = "sh_fetch"
    /\ sh_posts' = sh_posts \cup {[item |-> item_modified.id, attempt |-> sh.retry.calls + 1,
                                    payload |-> ShPayload(queue[idx], aoi)]}
    /\ \E response \in Responses :
         IF response.status = HTTP_OK
         THEN LET downloaded_path == DataTifPath(item_modified.id)
                  item_path == ItemPath(item_modified.id)
                  doc == [item_modified EXCEPT
                            !.assets = DictSet(@, "data", DataAsset(downloaded_path)),
                            !.properties = AdjustProperties(@)]
              IN  /\ sh' = [retry |-> RetryOnSuccess(sh.retry), response |-> response]
                  /\ files' = [p \in DOMAIN files \cup {downloaded_path} |->
                                 IF p = downloaded_path THEN "complete" ELSE files[p]]
                  /\ sizes' = Written(sizes, downloaded_path, ContentLength)
                  /\ docs' = [p \in DOMAIN docs \cup {item_path} |->
                                IF p = item_path THEN doc ELSE docs[p]]
                  /\ results' = Append(results, item_path)
                  /\ items' = SharedProperties(items, item_modified.id, doc.properties)
                  /\ queue' = SharedProperties(queue, item_modified.id, doc.properties)
                  /\ item_modified' = NoItem
                  /\ idx' = idx + 1
                  /\ pc' = "loop"
                  /\ UNCHANGED <<error, failed>>
         ELSE LET exc == ErrorMessage(response, sh.retry.calls + 1)
                  r == RetryOnFailure(sh.retry, exc)
              IN  /\ sh' = [retry |-> r, response |-> response]
                  /\ IF r.tries = 0
                     THEN /\ pc' = "raised"
                          /\ error' = exc
                          /\ failed' = failed \cup {item_modified.id}
                     ELSE UNCHANGED <<pc, error, failed>>
                  /\ UNCHANGED <<files, sizes, docs, results, items, queue, item_modified, idx>>
    /\ UNCHANGED <<library, args, invocation, writes, tasks, cluster, dispatched>>

-----------------------------------------------------------------------------
(* A second invocation over the same output directory *)

\* the caller invokes the driver again with the same arguments: the output
\* directory still holds what the previous invocation wrote
Rerun ==
    /\ pc \in {"returned", "raised"}
    /\ run < MaxRuns
    /\ run' = run + 1
    /\ snapshot' = [pc |-> pc, files |-> DOMAIN files, docs |-> docs, results |-> results]
    /\ pc' = "start"
    /\ queue' = <<>>
    /\ idx' = 0
    /\ item_modified' = NoItem
    /\ tasks' = EmptyMap
    /\ cluster' = NoCluster
    /\ sh' = [retry |-> RetryInit(ShTries(mode)), response |-> NoResponse]
    /\ results' = <<>>
    /\ error' = NoError
    /\ dispatched' = {}
    /\ failed' = {}
    /\ writes' = {}
    /\ sh_posts' = {}
    /\ UNCHANGED <<library, args, sizes, items, files, docs>>

-----------------------------------------------------------------------------

Next ==
    \/ Start
    \/ BeginItem
    \/ \E k \in DOMAIN tasks : TaskStart(k)
    \/ \E k \in DOMAIN tasks : TaskAttempt(k)
    \/ ComputeRaise
    \/ FinishItem
    \/ BeginItemSh
    \/ ShRequest
    \/ Return

Spec == Init /\ [][Next]_vars

\* invocations repeated over one output directory, on the arguments of a general run
InitRerun ==
    /\ mode \in Modes
    /\ clip \in BOOLEAN
    /\ aoi = CoreAoi
    /\ asset_rename \in (IF mode = "search" THEN Renames ELSE {NoRename})
    /\ width = PoolWidth
    /\ items \in RerunItemSeqs
    /\ LibraryIdle
    /\ items0 = items
    /\ run = 1
    /\ snapshot = NoSnapshot
    /\ files = EmptyMap
    /\ sizes = EmptyMap
    /\ docs = EmptyMap
    /\ Entry

NextRerun ==
    \/ Next
    \/ Rerun

SpecRerun == InitRerun /\ [][NextRerun]_vars

-----------------------------------------------------------------------------
(* prepare_data_array and query: the errors of an unsupported input *)

\* the collection ids unify_asset_identifiers accepts, SENTINEL_2_L2A_COLLECTION_NAME,
\* LOCAL_COLLECTION_NAME and SENTINEL_2_ARD_COLLECTION_NAME; the last two are
\* imported from consts.stac by name
KNOWN_COLLECTIONS == {"sentinel-2-l2a", "LOCAL_COLLECTION_NAME", "SENTINEL_2_ARD_COLLECTION_NAME"}

\* item.collection_id of the items prepare_data_array is called with
Collections == KNOWN_COLLECTIONS \cup {"sentinel-1-grd", "landsat-c2-l2"}

Bands == {"red", "nir"}

\* the assets argument: lists of band names
AssetLists == UNION { [1..n -> Bands] : n \in 0..MaxAssets }

\* unify_asset_identifiers: the names are returned as they are, or ValueError
UnifyAssetIdentifiers(assets_to_use, collection) ==
    IF collection \in KNOWN_COLLECTIONS
    THEN [raised |-> FALSE, value |-> assets_to_use, text |-> ""]
    ELSE [raised |-> TRUE, value |-> <<>>, text |-> "Unknown collection"]

\* the values of --stac_collection the model draws
StacCollections ==
    {"sentinel-1-grd", "sentinel-2-l2a", "sentinel-2-l2a-ard", "clms-corine-lc",
     "clms-water-bodies", "esa-lccci-glcm", "sentinel-2-l1c", "landsat-c2-l2"}

\* the if / elif chain of query: the handler of a collection, NONE for the else branch
QueryHandler(stac_collection) ==
    IF stac_collection = "sentinel-1-grd" THEN "handle_s1_query"
    ELSE IF stac_collection \in {"sentinel-2-l2a", "sentinel-2-l2a-ard"} THEN "handle_s2_query"
    ELSE IF stac_collection \in {"clms-corine-lc", "clms-water-bodies"} THEN "handle_sh_query"
    ELSE IF stac_collection = "esa-lccci-glcm" THEN "handle_esa_cci_glc_query"
    ELSE NONE

\* prepare_data_array is decorated with retry(tries=3, delay=3, backoff=2), query is not
InitCall ==
    \/ \E c \in Collections, a \in AssetLists :
         call = [NoCall EXCEPT !.fn = "prepare_data_array", !.collection = c, !.assets = a,
                               !.pc = "called", !.retry = RetryInit(TRIES)]
    \/ \E c \in StacCollections :
         call = [NoCall EXCEPT !.fn = "query", !.collection = c, !.pc = "called"]
    \/ call = [NoCall EXCEPT !.fn = "_prepare_s2_ard_data_array_no_clip",
                              !.collection = "sentinel-2-l2a-ard", !.assets = <<"cog", "cloud">>,
                              !.pc = "called", !.retry = RetryInit(TRIES),
                              !.stage = "cog", !.inner = RetryInit(TRIES)]

\* one evaluation of the body of prepare_data_array under the retry decorator:
\* unify_asset_identifiers is its first statement, then the bands are read and stacked
PrepareDataArray ==
    /\ call.fn = "prepare_data_array"
    /\ call.pc = "called"
    /\ LET mapped_asset_ids == UnifyAssetIdentifiers(call.assets, call.collection)
           attempt == call.retry.calls + 1
       IN  \E outcome \in {"ok", "io_error"} :
             LET exc == IF mapped_asset_ids.raised
                        THEN [kind |-> "ValueError", status |-> 0,
                              text |-> mapped_asset_ids.text, attempt |-> attempt]
                        ELSE [kind |-> outcome, status |-> 0, text |-> "", attempt |-> attempt]
                 r == RetryOnFailure(call.retry, exc)
             IN  IF ~mapped_asset_ids.raised /\ outcome = "ok"
                 THEN call' = [call EXCEPT !.pc = "returned", !.retry = RetryOnSuccess(@),
                                           !.result = mapped_asset_ids.value]
                 ELSE call' = [call EXCEPT !.retry = r,
                                           !.pc = IF r.tries = 0 THEN "raised" ELSE "called",
                                           !.error = IF r.tries = 0 THEN exc ELSE @]
    /\ UNCHANGED <<pipeline, joincall, split, clipjob, geojson, polygon, catalogs, jpc, jidx, out_fs, merged, saved>>

\* query: the handler of the collection is called, or ValueError is raised
Query ==
    /\ call.fn = "query"
    /\ call.pc = "called"
    /\ LET handler == QueryHandler(call.collection)
       IN  IF handler # NONE
           THEN call' = [call EXCEPT !.pc = "returned", !.retry = RetryOnSuccess(@),
                                     !.result = <<handler>>]
           ELSE LET exc == [kind |-> "ValueError", status |-> 0,
                            text |-> "Unsupported stac collection", attempt |-> 1]
                IN  call' = [call EXCEPT !.pc = "raised", !.retry = RetryOnFailure(@, exc),
                                         !.error = exc]
    /\ UNCHANGED <<pipeline, joincall, split, clipjob, geojson, polygon, catalogs, jpc, jidx, out_fs, merged, saved>>

\* _prepare_s2_ard_data_array_no_clip, itself under retry(tries=3, delay=3, backoff=2),
\* calls download_asset, which is under the same decorator, for the "cog" asset and
\* then for the "cloud" asset. One step is one GET of download_asset: when its tries
\* are used up the exception reaches the outer decorator, which runs the body again
\* from its first statement; after the second download the arrays are read and stacked
NoClipFetch ==
    /\ call.fn = "_prepare_s2_ard_data_array_no_clip"
    /\ call.pc = "called"
    /\ LET fetched == [call EXCEPT !.fetches[call.stage] = @ + 1]
           again(exc) ==
               LET r == RetryOnFailure(call.retry, exc)
               IN  [fetched EXCEPT !.retry = r,
                                   !.stage = "cog",
                                   !.inner = RetryInit(TRIES),
                                   !.pc = IF r.tries = 0 THEN "raised" ELSE "called",
                                   !.error = IF r.tries = 0 THEN exc ELSE @]
       IN  \E outcome \in Outcomes, read \in {"ok", "io_error"} :
             LET exc == [kind |-> outcome, status |-> 0, text |-> "",
                         attempt |-> call.inner.calls + 1]
                 inner == RetryOnFailure(call.inner, exc)
             IN  IF outcome # "ok"
                 THEN call' = IF inner.tries = 0
                              THEN again(exc)
                              ELSE [fetched EXCEPT !.inner = inner]
                 ELSE IF call.stage = "cog"
                 THEN call' = [fetched EXCEPT !.stage = "cloud", !.inner = RetryInit(TRIES)]
                 ELSE IF read = "ok"
                 THEN call' = [fetched EXCEPT !.pc = "returned", !.retry = RetryOnSuccess(@),
                                              !.inner = RetryOnSuccess(@),
                                              !.result = call.assets]
                 ELSE call' = again([kind |-> read, status |-> 0, text |-> "",
                                     attempt |-> call.retry.calls + 1])
    /\ UNCHANGED <<pipeline, joincall, split, clipjob, geojson, polygon, catalogs, jpc, jidx, out_fs, merged, saved>>

InitPrepare ==
    /\ PipelineIdle
    /\ JoinCallIdle
    /\ SplitIdle
    /\ ClipIdle
    /\ GeojsonIdle
    /\ JoinIdle
    /\ InitCall

NextPrepare ==
    \/ PrepareDataArray
    \/ Query
    \/ NoClipFetch

SpecPrepare == InitPrepare /\ [][NextPrepare]_vars

-----------------------------------------------------------------------------
(* geojson_to_polygon (utils/geom.py) and gejson_to_polygon (geom_utils/transform.py) *)

Points == (0..RingGrid) \X (0..RingGrid)

\* the coordinates of a GeoJSON polygon without holes: a closed ring of four vertices
Rings == { <<p1, p2, p3, p4, p1>> : p1 \in Points, p2 \in Points, p3 \in Points, p4 \in Points }

GeojsonTypes == {"Polygon", "Point", "MultiPolygon"}

\* twice the signed area of the triangle a, b, c
Orient(a, b, c) == (b[1] - a[1]) * (c[2] - a[2]) - (b[2] - a[2]) * (c[1] - a[1])

\* p lies on the closed segment from a to b
OnSegment(a, b, p) ==
    /\ Orient(a, b, p) = 0
    /\ Min(a[1], b[1]) <= p[1] /\ p[1] <= Max(a[1], b[1])
    /\ Min(a[2], b[2]) <= p[2] /\ p[2] <= Max(a[2], b[2])

\* the open segments a-b and c-d cross in one point
ProperCrossing(a, b, c, d) ==
    /\ Orient(a, b, c) * Orient(a, b, d) < 0
    /\ Orient(c, d, a) * Orient(c, d, b) < 0

\* the closed segments a-b and c-d have a point in common
SegmentsIntersect(a, b, c, d) ==
    \/ ProperCrossing(a, b, c, d)
    \/ OnSegment(a, b, c) \/ OnSegment(a, b, d)
    \/ OnSegment(c, d, a) \/ OnSegment(c, d, b)

\* a coordinate sequence without its consecutive repeated points, which validity ignores
RECURSIVE DropRepeated(_)
DropRepeated(s) ==
    IF Len(s) <= 1 THEN s
    ELSE IF s[1] = s[2] THEN DropRepeated(Tail(s))
    ELSE <<s[1]>> \o DropRepeated(Tail(s))

\* the edges a-b and b-c, which meet in b, have more than b in common
EdgesOverlap(a, b, c) == Orient(a, b, c) = 0 /\ ~(OnSegment(a, c, b) /\ a # c)

\* polygon.is_valid for a polygon without holes: the ring has an interior and
\* neither crosses nor touches itself
IsValid(ring) ==
    LET closed == DropRepeated(ring)
        n == Len(closed) - 1
        v(i) == closed[((i - 1) % n) + 1]
    IN  /\ n >= 3
        /\ \A i \in 1..n : ~EdgesOverlap(v(i), v(i + 1), v(i + 2))
        /\ \A i, j \in 1..n :
             (i + 1 < j /\ ~(i = 1 /\ j = n)) => ~SegmentsIntersect(v(i), v(i + 1), v(j), v(j + 1))

\* shape(geojson): the polygon of the coordinates
Shape(g) == [exterior |-> g.coordinates]

Raised(message) == [status |-> "raised", message |-> message, exterior |-> <<>>]

GeojsonToPolygonValidityFirst(g) ==
    LET shp == Shape(g)
    IN  IF ~IsValid(shp.exterior) THEN Raised("The provided polygon is not valid")
        ELSE IF g.type # "Polygon" THEN Raised("Provided GeoJSON is not a polygon")
        ELSE [status |-> "returned", message |-> "", exterior |-> shp.exterior]

\* the type test, then shape() and the validity test
GeojsonToPolygon(g) ==
    IF g.type # "Polygon" THEN Raised("Provided GeoJSON is not a polygon")
    ELSE LET shp == Shape(g)
         IN  IF ~IsValid(shp.exterior) THEN Raised("The provided polygon is not valid")
             ELSE [status |-> "returned", message |-> "", exterior |-> shp.exterior]

InitGeojson ==
    /\ geojson \in [type : GeojsonTypes, coordinates : Rings]
    /\ polygon = NoPolygon

\* the call of geojson_to_polygon on the argument
CallGeojsonToPolygon ==
    /\ polygon = NoPolygon
    /\ polygon' = GeojsonToPolygon(geojson)
    /\ UNCHANGED <<pipeline, joincall, split, clipjob, call, geojson, catalogs, jpc, jidx, out_fs, merged, saved>>

InitPolygon ==
    /\ PipelineIdle
    /\ JoinCallIdle
    /\ SplitIdle
    /\ ClipIdle
    /\ CallIdle
    /\ JoinIdle
    /\ InitGeojson

NextPolygon == CallGeojsonToPolygon

SpecPolygon == InitPolygon /\ [][NextPolygon]_vars

-----------------------------------------------------------------------------
(* merge_stac_catalogs (workflows/stac/join.py) *)

CatalogDirs == <<"catalog1", "catalog2">>

\* the absolute href of an asset file of a catalog on disk: <catalog dir>/<item id>/<file name>
SourceHref(c, id, name) == [dir |-> <<CatalogDirs[c], id>>, name |-> name]

JoinAsset(c, id, key, name) == [key |-> key, href |-> SourceHref(c, id, name)]

\* the asset dicts an item of catalog c may have; file names repeat across keys and catalogs
AssetChoices(c, id) ==
    << <<JoinAsset(c, id, "ndvi_asset", "a.txt")>>,
       <<JoinAsset(c, id, "evi_asset", "a.txt")>>,
       <<JoinAsset(c, id, "ndvi_asset", "a.txt"), JoinAsset(c, id, "evi_asset", "b.txt")>> >>

\* catalog c with, for each id, no item (0) or the item with the chosen assets
CatalogOf(c, f) ==
    LET present == SelectSeq([i \in 1..JoinIds |-> i], LAMBDA i : f[i] # 0)
    IN  [j \in DOMAIN present |->
           [id |-> ItemIds[present[j]],
            assets |-> AssetChoices(c, ItemIds[present[j]])[f[present[j]]]]]

InitCatalogs ==
    \E f1, f2 \in [1..JoinIds -> 0..3] : catalogs = <<CatalogOf(1, f1), CatalogOf(2, f2)>>

CatalogIds(catalog) == {catalog[i].id : i \in DOMAIN catalog}

\* catalog2_items.get(item1.id): the assets of the item of that id, none when it is absent
AssetsOf(catalog, id) ==
    IF id \in CatalogIds(catalog)
    THEN catalog[CHOOSE i \in DOMAIN catalog : catalog[i].id = id].assets
    ELSE <<>>

\* item_dir / Path(asset.href).name, under output_dir
NewHref(item_id, href) == [dir |-> <<"source_data", item_id>>, name |-> href.name]

\* copy_asset, the asset it returns: the same asset with the new href
CopiedAssets(assets, item_id) ==
    [i \in DOMAIN assets |-> [assets[i] EXCEPT !.href = NewHref(item_id, assets[i].href)]]

\* copy_asset, the files: shutil.copy(asset.href, new_href) for each asset in turn
RECURSIVE CopyFiles(_, _, _)
CopyFiles(fs, assets, item_id) ==
    IF assets = <<>> THEN fs
    ELSE LET src == Head(assets).href
             dst == NewHref(item_id, src)
         IN  CopyFiles([p \in DOMAIN fs \cup {dst} |-> IF p = dst THEN src ELSE fs[p]],
                       Tail(assets), item_id)

\* merged_item.add_asset(key, asset) for each asset of item2: add or overwrite
RECURSIVE AddAssets(_, _)
AddAssets(assets, more) ==
    IF more = <<>> THEN assets
    ELSE AddAssets(DictSet(assets, Head(more).key, Head(more)), Tail(more))

MergedAssetsFirstOnly(assets1, assets2, item_id) == CopiedAssets(assets1, item_id)

\* the assets of a merged item: those of item1, then those of item2 added over them
MergedAssets(assets1, assets2, item_id) ==
    AddAssets(CopiedAssets(assets1, item_id), CopiedAssets(assets2, item_id))

\* make_all_asset_hrefs_relative: the href as seen from the item's directory <output_dir>/<item id>
RelativeHref(href) == [up |-> 1, dir |-> href.dir, name |-> href.name]

\* write_local_stac: the items are saved with relative asset hrefs
SavedItems(catalog) ==
    [i \in DOMAIN catalog |->
       [catalog[i] EXCEPT !.assets = [j \in DOMAIN @ |-> [@[j] EXCEPT !.href = RelativeHref(@)]]]]

InitJoin ==
    /\ InitCatalogs
    /\ jpc = "start"
    /\ jidx = 0
    /\ out_fs = EmptyMap
    /\ merged = <<>>
    /\ saved = <<>>

\* the catalogs are loaded and catalog2 is indexed by item id
MergeBegin ==
    /\ jpc = "start"
    /\ jpc' = "catalog1"
    /\ jidx' = 1
    /\ UNCHANGED <<pipeline, joincall, split, clipjob, call, geojson, polygon, catalogs, out_fs, merged, saved>>

\* one iteration of the loop over catalog1: the assets of item1 are copied, then
\* those of the item of the same id in catalog2, under source_data/<item1.id>
MergeItem1 ==
    /\ jpc = "catalog1"
    /\ jidx <= Len(catalogs[1])
    /\ LET item1 == catalogs[1][jidx]
           assets2 == AssetsOf(catalogs[2], item1.id)
       IN  /\ out_fs' = CopyFiles(CopyFiles(out_fs, item1.assets, item1.id), assets2, item1.id)
           /\ merged' = Append(merged,
                               [id |-> item1.id,
                                assets |-> MergedAssets(item1.assets, assets2, item1.id)])
    /\ jidx' = jidx + 1
    /\ UNCHANGED <<pipeline, joincall, split, clipjob, call, geojson, polygon, catalogs, jpc, saved>>

\* the loop over catalog1 is exhausted
MergeNextLoop ==
    /\ jpc = "catalog1"
    /\ jidx > Len(catalogs[1])
    /\ jpc' = "catalog2"
    /\ jidx' = 1
    /\ UNCHANGED <<pipeline, joincall, split, clipjob, call, geojson, polygon, catalogs, out_fs, merged, saved>>

\* one iteration of the loop over catalog2: an item whose id is not in catalog1
\* is cloned and its assets are copied
MergeItem2 ==
    /\ jpc = "catalog2"
    /\ jidx <= Len(catalogs[2])
    /\ LET item == catalogs[2][jidx]
       IN  IF item.id \notin CatalogIds(catalogs[1])
           THEN /\ out_fs' = CopyFiles(out_fs, item.assets, item.id)
                /\ merged' = Append(merged, [id |-> item.id,
                                             assets |-> CopiedAssets(item.assets, item.id)])
           ELSE UNCHANGED <<out_fs, merged>>
    /\ jidx' = jidx + 1
    /\ UNCHANGED <<pipeline, joincall, split, clipjob, call, geojson, polygon, catalogs, jpc, saved>>

\* write_local_stac(merged_catalog, output_dir, ...)
MergeSave ==
    /\ jpc = "catalog2"
    /\ jidx > Len(catalogs[2])
    /\ saved' = SavedItems(merged)
    /\ jpc' = "done"
    /\ UNCHANGED <<pipeline, joincall, split, clipjob, call, geojson, polygon, catalogs, jidx, out_fs, merged>>

InitMerge ==
    /\ PipelineIdle
    /\ JoinCallIdle
    /\ SplitIdle
    /\ ClipIdle
    /\ CallIdle
    /\ GeojsonIdle
    /\ InitJoin

NextMerge ==
    \/ MergeBegin
    \/ MergeItem1
    \/ MergeNextLoop
    \/ MergeItem2
    \/ MergeSave

SpecMerge == InitMerge /\ [][NextMerge]_vars

-----------------------------------------------------------------------------
(* Vocabulary of the properties *)

\* the input item a written item JSON belongs to
SourceItem(path) == items[CHOOSE i \in DOMAIN items : items[i].id = path.stem]

\* position in the input collection of the item a path belongs to
InputIndex(path) == CHOOSE i \in DOMAIN items : items[i].id = path.stem

ResultPaths == {results[i] : i \in DOMAIN results}

Terminated == pc \in {"returned", "raised"}

\* the media type a reader of the item sees: the declared one, else the extension
DeclaredOrInferred(asset) ==
    IF asset.media_type = NONE \/ asset.media_type = "" THEN asset.href.suffix ELSE asset.media_type

SpecRasterSet == {"tif", "tiff", "geotiff", COG_MEDIA_TYPE}
CodeRasterSet == SpecRasterSet \cup {"cog"}

\* every asset handed to a task, and every asset of every written item, comes
\* from a source asset whose media type is in the given set (the "data" asset
\* of the process-API backend is the fetched raster itself)
OnlyRasterAssets(supported) ==
    /\ \A d \in dispatched : Lower(DeclaredOrInferred(d.asset)) \in supported
    /\ \A p \in DOMAIN docs : \A i \in DOMAIN docs[p].assets :
         LET e == docs[p].assets[i]
             src == SourceItem(p).assets
         IN  \/ mode \in ShModes /\ e.key = "data" /\ e.href = AsPosix(DataTifPath(p.stem))
             \/ \E j \in DOMAIN src :
                  /\ Lower(DeclaredOrInferred(src[j])) \in supported
                  /\ e.media_type = src[j].media_type
                  /\ \/ e.href = src[j].href
                     \/ e.href = AsPosix(AssetFilename(p.stem, src[j].key))

\* box b lies within box a; a comparison with NaN is false
Contained(b, a) ==
    /\ ~b.nan
    /\ ~a.nan
    /\ a.box[1] <= b.box[1]
    /\ a.box[2] <= b.box[2]
    /\ b.box[3] <= a.box[3]
    /\ b.box[4] <= a.box[4]

ExpectedWaits == <<3, 6>>

-----------------------------------------------------------------------------
(* C1 *)

\* C1: an item whose asset-fetch stage ended in a terminal error has no item
\* JSON file, and no item JSON exists for an item whose asset operations
\* (pool tasks, process-API fetch) are still unresolved.
C1_Atomicity ==
    \A i \in DOMAIN items :
        LET id == items[i].id
        IN  (id \in failed \/ (pc \in {"pool", "sh_fetch"} /\ item_modified.id = id))
                => ItemPath(id) \notin DOMAIN docs

\* an item failed after an earlier item of the same run had been written
C1_Witness == pc = "raised" /\ failed # {} /\ Len(results) >= 1 /\ DOMAIN docs # {}

-----------------------------------------------------------------------------
(* C2 *)

\* C2: the driver never aborts because of one bad item: it ends by returning,
\* every item was processed, a failed item is not in the returned list and
\* every other item is.
C2_NeverAborts ==
    Terminated =>
        /\ pc = "returned"
        /\ \A i \in DOMAIN items :
             IF items[i].id \in failed
             THEN ItemPath(items[i].id) \notin ResultPaths
             ELSE ItemPath(items[i].id) \in ResultPaths

-----------------------------------------------------------------------------
(* C3 *)

\* C3: in the asset map of a written item every retained asset key appears
\* exactly once (under the name asset_rename gives it) and is bound to the
\* result of the task started for that key, for every completion order.
C3_RejoinByKey ==
    mode = "search" =>
        \A p \in DOMAIN docs :
            LET keys == {d.asset.key : d \in {x \in dispatched : x.item = p.stem}}
                out == docs[p].assets
            IN  /\ Len(out) = Cardinality(keys)
                /\ \A k \in keys :
                     /\ Cardinality({i \in DOMAIN out : out[i].key = RenameGet(asset_rename, k)}) = 1
                     /\ \A i \in DOMAIN out :
                          out[i].key = RenameGet(asset_rename, k)
                              => out[i].href = AsPosix(AssetFilename(p.stem, k))

-----------------------------------------------------------------------------
(* C4 *)

\* C4: the returned list holds the item paths in ascending acquisition
\* timestamp; items with equal timestamps keep the order of the input.
C4_AcquisitionOrder ==
    pc = "returned" =>
        /\ Len(results) = Len(items)
        /\ \A a \in DOMAIN results : \E i \in DOMAIN items : results[a] = ItemPath(items[i].id)
        /\ \A a \in DOMAIN results : \A b \in DOMAIN results :
             a < b =>
                LET ia == InputIndex(results[a])
                    ib == InputIndex(results[b])
                IN  \/ items[ia].datetime < items[ib].datetime
                    \/ items[ia].datetime = items[ib].datetime /\ ia < ib

\* a run returned the paths of a collection that was given out of order
C4_Witness ==
    /\ pc = "returned"
    /\ Len(results) >= 2
    /\ \E i \in DOMAIN items : \E j \in DOMAIN items : i < j /\ items[i].datetime > items[j].datetime

-----------------------------------------------------------------------------
(* C5 *)

\* C5 (as stated): no asset whose declared or inferred media type is outside
\* tif, tiff, geotiff and the cloud-optimized GeoTIFF content type is handed
\* to a fetch task or appears in a written item.
C5_OnlySpecRasterSet == OnlyRasterAssets(SpecRasterSet)

\* C5 (amended): no asset whose declared or inferred media type, compared in
\* lower case, is outside tif, tiff, geotiff, cog and the cloud-optimized
\* GeoTIFF content type is handed to a fetch task or appears in a written item.
C5_OnlyCodeRasterSet == OnlyRasterAssets(CodeRasterSet)

\* an item was written that kept one asset and lost a non-raster one
C5_Witness ==
    \E p \in DOMAIN docs :
        /\ Len(docs[p].assets) >= 1
        /\ \E j \in DOMAIN SourceItem(p).assets :
             /\ Lower(DeclaredOrInferred(SourceItem(p).assets[j])) \notin CodeRasterSet
             /\ \A i \in DOMAIN docs[p].assets : docs[p].assets[i].key # SourceItem(p).assets[j].key

-----------------------------------------------------------------------------
(* C6 *)

\* C6: with clip=true the bbox of every written item is the bounds of the
\* intersection of the item's footprint with the AOI and lies within the
\* bounding box of the AOI.
C6_BboxWithinAoi ==
    clip =>
        \A p \in DOMAIN docs :
            /\ docs[p].bbox = Bounds(Intersection(SourceItem(p).geometry, aoi))
            /\ Contained(docs[p].bbox, Bounds(aoi))

-----------------------------------------------------------------------------
(* C7 *)

\* C7: an asset task whose attempts all fail makes exactly 3 attempts, waits
\* 3 then 6 between them and nothing after the last, and the error of the 3rd
\* attempt leaves the driver; a task that succeeds on attempt k <= 3 has made
\* k attempts, waited only between them, and holds the localized asset.
C7_RetryBound ==
    /\ \A k \in DOMAIN tasks :
         LET t == tasks[k]
             r == t.retry
         IN  /\ r.calls <= 3
             /\ t.status = "error" =>
                  r.calls = 3 /\ r.waits = ExpectedWaits /\ r.exc.attempt = 3
             /\ t.status = "finished" =>
                  /\ r.calls \in 1..3
                  /\ r.waits = SubSeq(ExpectedWaits, 1, r.calls - 1)
                  /\ t.asset.href = AsPosix(AssetFilename(item_modified.id, k))
             /\ t.status = "running" =>
                  r.calls <= 2 /\ r.waits = SubSeq(ExpectedWaits, 1, r.calls)
    /\ (pc = "raised" /\ mode = "search") =>
         /\ error.attempt = 3
         /\ \E k \in DOMAIN tasks : tasks[k].status = "error" /\ tasks[k].retry.exc = error

\* the driver was left by the error of a task that had used its 3 attempts
C7_Witness ==
    /\ pc = "raised"
    /\ mode = "search"
    /\ \E k \in DOMAIN tasks : tasks[k].status = "error" /\ tasks[k].retry.waits = ExpectedWaits

-----------------------------------------------------------------------------
(* C8 *)

\* no data.tif exists without the item JSON written in the same step: a
\* non-200 response leaves no raster behind
NoRasterWithoutItem ==
    \A p \in DOMAIN files : [dir |-> p.dir, stem |-> p.dir[2], suffix |-> "json"] \in DOMAIN docs

\* the error that left the driver carries the status and body of the last response
ErrorEmbedsResponse ==
    /\ sh.response.status # 200
    /\ error.kind = "HTTPError"
    /\ error.status = sh.response.status
    /\ error.text = sh.response.text

\* C8 (as stated): on a non-200 answer the per-item fetch raises after that
\* single request, the error embeds status code and body, and no data.tif is
\* written.
C8_RaisesAfterOneRequest ==
    mode \in ShModes =>
        /\ NoRasterWithoutItem
        /\ pc = "raised" =>
             /\ sh.retry.calls = 1
             /\ sh.retry.waits = <<>>
             /\ ErrorEmbedsResponse

\* C8 (amended): when the process API keeps answering non-200,
\* utils._download_sh_item makes 3 requests, waiting 3 then 6, and
\* utils_sentinelhub._download_sh_item makes one; the error that is raised
\* embeds the status code and body of the last response, and no data.tif is
\* written by a non-200 answer.
C8_RaisesAfterRetries ==
    mode \in ShModes =>
        /\ NoRasterWithoutItem
        /\ pc = "raised" =>
             /\ sh.retry.calls = (IF mode = "sh" THEN 3 ELSE 1)
             /\ sh.retry.waits = (IF mode = "sh" THEN ExpectedWaits ELSE <<>>)
             /\ error.attempt = sh.retry.calls
             /\ ErrorEmbedsResponse

\* the decorated fetch gave up on its third non-200 answer
C8_Witness == mode = "sh" /\ pc = "raised" /\ sh.retry.calls = 3 /\ sh.response.status = 403

-----------------------------------------------------------------------------
(* C9 *)

\* C9: every item written by download_sentinel_hub has exactly one asset,
\* keyed "data", whose href is the fetched data.tif.
C9_OnlyDataAsset ==
    mode \in ShModes =>
        \A p \in DOMAIN docs :
            /\ Len(docs[p].assets) = 1
            /\ docs[p].assets[1].key = "data"
            /\ docs[p].assets[1].href = AsPosix(DataTifPath(p.stem))

-----------------------------------------------------------------------------
(* C10 *)

\* C10: every asset of every written item has an href that is a local .tif
\* file inside the item's working directory, and that file exists.
C10_LocalHrefs ==
    \A p \in DOMAIN docs : \A i \in DOMAIN docs[p].assets :
        LET href == docs[p].assets[i].href
            file == [dir |-> href.dir, stem |-> href.stem, suffix |-> href.suffix]
        IN  /\ href.scheme = ""
            /\ href.dir = p.dir
            /\ href.suffix = "tif"
            /\ file \in DOMAIN files
            /\ files[file] = "complete"

-----------------------------------------------------------------------------
(* C11 *)

\* the asset keys of a written item
DocKeys(doc) == {doc.assets[i].key : i \in DOMAIN doc.assets}

\* the asset hrefs of a written item, by asset position
DocHrefs(doc) == [i \in DOMAIN doc.assets |-> doc.assets[i].href]

\* C11: when an invocation that follows a completed invocation with the same
\* arguments and output directory returns, the directory holds the same item
\* JSON paths, the same asset keys and hrefs in every item and the same raster
\* paths as when the previous invocation returned, and the same results come back.
C11_RerunIdempotent ==
    (run > 1 /\ pc = "returned" /\ snapshot.pc = "returned") =>
        /\ DOMAIN docs = DOMAIN snapshot.docs
        /\ \A p \in DOMAIN docs :
             /\ DocKeys(docs[p]) = DocKeys(snapshot.docs[p])
             /\ DocHrefs(docs[p]) = DocHrefs(snapshot.docs[p])
        /\ DOMAIN files = snapshot.files
        /\ results = snapshot.results

C11_Witness ==
    /\ run = 2
    /\ pc = "returned"
    /\ snapshot.pc = "returned"
    /\ Len(results) = 2
    /\ mode = "search"
    /\ \E p \in DOMAIN docs : Len(docs[p].assets) = 2

-----------------------------------------------------------------------------
(* C14 *)

\* C14: a raster path is written by one task only, the task of asset key k of
\* item i writes source_data/i/k.tif and nothing else, the tasks that run at
\* the same time have pairwise distinct destinations, and no task writes to
\* the path of an item JSON.
C14_DistinctDestinations ==
    /\ \A w1, w2 \in writes : w1.path = w2.path => (w1.item = w2.item /\ w1.key = w2.key)
    /\ \A w \in writes :
         /\ w.path.dir = <<"source_data", w.item>>
         /\ w.path.stem = w.key
         /\ w.path.suffix = "tif"
         /\ \A i \in DOMAIN items : w.path # ItemPath(items[i].id)
    /\ \A k1, k2 \in Running(tasks) :
         k1 # k2 => AssetFilename(item_modified.id, k1) # AssetFilename(item_modified.id, k2)

C14_Witness ==
    /\ Cardinality(Running(tasks)) = 2
    /\ \A k \in Running(tasks) : \E w \in writes : w.item = item_modified.id /\ w.key = k

-----------------------------------------------------------------------------
(* C15 *)

\* C15: when a task of an item ends in a terminal error, every other task of
\* that item still runs to its own success or terminal error before the pool
\* is torn down: no task is ended while pending or running.
C15_SiblingsRunToCompletion ==
    (mode = "search" /\ pc = "raised") =>
        \A k \in DOMAIN tasks : tasks[k].status \in {"finished", "error"}

-----------------------------------------------------------------------------
(* C16 *)

\* the items the loop has reached so far
Reached == {queue[j].id : j \in {j \in DOMAIN queue : j <= idx}}

\* C16: the driver moves to the next item, writes an item JSON or hands out
\* tasks only when no task is pending or running, and every task handed out
\* and every item JSON written belongs to an item the loop has reached.
C16_Sequential ==
    /\ [][(idx' # idx \/ docs' # docs \/ dispatched' # dispatched) =>
             \A k \in DOMAIN tasks : tasks[k].status \notin {"pending", "running"}]_vars
    /\ [](/\ \A d \in dispatched : d.item \in Reached
          /\ \A p \in DOMAIN docs : p.stem \in Reached)

C16_Witness ==
    /\ pc = "pool"
    /\ idx = 2
    /\ Running(tasks) # {}
    /\ ItemPath(queue[1].id) \in DOMAIN docs
    /\ Len(docs[ItemPath(queue[1].id)].assets) = 2

-----------------------------------------------------------------------------
(* C17 *)

\* as claimed: one pool per invocation
C17_OncePerInvocation ==
    /\ cluster.created <= 1
    /\ cluster.alive <= 1
    /\ (pc \in {"returned", "raised"} => cluster.alive = 0)

\* iterations of the loop of download_search_results that have entered the with block
PoolEntries ==
    IF mode # "search" \/ pc = "start" THEN 0
    ELSE IF pc \in {"pool", "raised"} THEN idx
    ELSE idx - 1

\* C17: download_search_results creates a fresh pool for every item of the
\* invocation, at most one pool is alive at any time and only while the tasks
\* of an item are computed, and no pool is alive once the driver has returned
\* or raised.
C17_PoolPerItem ==
    /\ cluster.created = PoolEntries
    /\ cluster.alive <= 1
    /\ (cluster.alive = 1 <=> pc = "pool")
    /\ (pc \in {"returned", "raised"} => cluster.alive = 0)

C17_Witness ==
    /\ pc = "raised"
    /\ mode = "search"
    /\ cluster.created = 2
    /\ cluster.alive = 0

-----------------------------------------------------------------------------
(* C18 *)

\* C18: the items the caller handed over are never changed by the driver.
C18_InputUnchanged == items = items0

-----------------------------------------------------------------------------
(* C19 *)

\* C19: with clip set, no item JSON is written for an item whose footprint
\* does not intersect the AOI.
C19_EmptyClipNoJson ==
    clip => \A p \in DOMAIN docs : ~Intersection(SourceItem(p).geometry, aoi).empty

-----------------------------------------------------------------------------
(* C20 *)

\* C20: a ValueError for an unknown collection reaches the caller of
\* prepare_data_array or of query after a single evaluation, with no wait.
C20_UnsupportedNotRetried ==
    (call.pc = "raised" /\ call.error.kind = "ValueError") =>
        (call.retry.calls = 1 /\ call.retry.waits = <<>>)

-----------------------------------------------------------------------------
(* C13 *)

\* the four vertices of a ring
Vertex(ring, i) == ring[((i - 1) % 4) + 1]

\* two opposite edges of the ring cross: a self-intersecting polygon
SelfIntersecting(ring) ==
    \/ ProperCrossing(ring[1], ring[2], ring[3], ring[4])
    \/ ProperCrossing(ring[2], ring[3], ring[4], ring[1])

\* the ring turns the same way at each of its four vertices: a convex quadrilateral
Convex(ring) ==
    \/ \A i \in 1..4 : Orient(Vertex(ring, i), Vertex(ring, i + 1), Vertex(ring, i + 2)) > 0
    \/ \A i \in 1..4 : Orient(Vertex(ring, i), Vertex(ring, i + 1), Vertex(ring, i + 2)) < 0

\* C13: geojson_to_polygon raises 'Provided GeoJSON is not a polygon' for every
\* type other than Polygon, whatever the coordinates are, raises 'The provided
\* polygon is not valid' for a self-intersecting Polygon, and returns for a
\* convex Polygon, and whenever it returns, a polygon with the input's coordinates.
C13_GeojsonToPolygon ==
    polygon # NoPolygon =>
        /\ geojson.type # "Polygon" =>
             (polygon.status = "raised" /\ polygon.message = "Provided GeoJSON is not a polygon")
        /\ (geojson.type = "Polygon" /\ SelfIntersecting(geojson.coordinates)) =>
             (polygon.status = "raised" /\ polygon.message = "The provided polygon is not valid")
        /\ (geojson.type = "Polygon" /\ Convex(geojson.coordinates)) => polygon.status = "returned"
        /\ polygon.status = "returned" =>
             (geojson.type = "Polygon" /\ polygon.exterior = geojson.coordinates)

C13_Witness ==
    /\ geojson.type = "Point"
    /\ SelfIntersecting(geojson.coordinates)
    /\ polygon.message = "Provided GeoJSON is not a polygon"

-----------------------------------------------------------------------------
(* C12 *)

\* the file an href of a saved item resolves to, from the item's directory <output_dir>/<item id>
Resolved(item_id, href) ==
    [dir |-> SubSeq(<<item_id>>, 1, 1 - href.up) \o href.dir, name |-> href.name]

\* the assets of item id in catalog c, as a set
AssetSet(c, id) == {AssetsOf(catalogs[c], id)[i] : i \in DOMAIN AssetsOf(catalogs[c], id)}

\* C12: once merge_stac_catalogs is done, the saved catalog has one item for
\* each id of either input catalog and no other, each item has the asset keys
\* of the items of its id in both inputs, every asset of every input item has
\* a file of its source's name under source_data/<item id>, and every saved
\* asset points to such a file named after a source of its key.
C12_MergedCatalog ==
    jpc = "done" =>
        /\ CatalogIds(saved) = CatalogIds(catalogs[1]) \cup CatalogIds(catalogs[2])
        /\ Len(saved) = Cardinality(CatalogIds(saved))
        /\ \A i \in DOMAIN saved :
             /\ DictKeys(saved[i].assets) =
                  DictKeys(AssetsOf(catalogs[1], saved[i].id)) \cup DictKeys(AssetsOf(catalogs[2], saved[i].id))
             /\ \A j \in DOMAIN saved[i].assets :
                  LET file == Resolved(saved[i].id, saved[i].assets[j].href)
                  IN  /\ file \in DOMAIN out_fs
                      /\ file.dir = <<"source_data", saved[i].id>>
                      /\ \E c \in 1..2 : \E a \in AssetSet(c, saved[i].id) :
                           a.key = saved[i].assets[j].key /\ a.href.name = file.name
        /\ \A c \in 1..2 : \A i \in DOMAIN catalogs[c] : \A a \in AssetSet(c, catalogs[c][i].id) :
             [dir |-> <<"source_data", catalogs[c][i].id>>, name |-> a.href.name] \in DOMAIN out_fs

C12_Witness ==
    /\ jpc = "done"
    /\ \E id \in CatalogIds(catalogs[1]) \cap CatalogIds(catalogs[2]) :
         DictKeys(AssetsOf(catalogs[1], id)) # DictKeys(AssetsOf(catalogs[2], id))
    /\ CatalogIds(catalogs[1]) \ CatalogIds(catalogs[2]) # {}
    /\ CatalogIds(catalogs[2]) \ CatalogIds(catalogs[1]) # {}
    /\ Len(saved) = 3

-----------------------------------------------------------------------------
(* C21 *)

\* C21 (as stated): no remote asset of one call is fetched more than TRIES times.
\* It does not hold: the decorator of _prepare_s2_ard_data_array_no_clip runs the body,
\* and with it download_asset and its own TRIES attempts, up to TRIES times
C21_FetchBound ==
    call.fn = "_prepare_s2_ard_data_array_no_clip" =>
        /\ call.fetches.cog <= TRIES
        /\ call.fetches.cloud <= TRIES

-----------------------------------------------------------------------------
(* C22 *)

\* the destination file holds the whole remote file and nothing else
WholeFile(p) == p \in DOMAIN sizes /\ sizes[p] = [stale |-> 0, fresh |-> ContentLength]

\* C22: when a download has succeeded, on whichever of its attempts, the
\* destination file holds exactly the bytes of the successful attempt: none is
\* left of an earlier attempt that broke while writing, and the size of the file
\* is the remote content length.
C22_RestartFromZero ==
    /\ \A k \in DOMAIN tasks :
         tasks[k].status = "finished" =>
             /\ tasks[k].retry.calls \in 1..TRIES
             /\ WholeFile(AssetFilename(item_modified.id, k))
    /\ \A p \in DOMAIN files : files[p] = "complete" => WholeFile(p)

\* a download that succeeded on its last attempt, after the attempt before it
\* had broken while the file was written
C22_Witness ==
    \E k \in DOMAIN tasks :
        /\ tasks[k].status = "finished"
        /\ tasks[k].retry.calls = TRIES
        /\ tasks[k].retry.exc.kind = "io_error"
        /\ WholeFile(AssetFilename(item_modified.id, k))

-----------------------------------------------------------------------------
(* C23 *)

\* the requests sent on behalf of the item id
PostsOf(id) == {p \in sh_posts : p.item = id}

\* the bounding box of the area of interest, as (minx, miny, maxx, maxy)
AoiBbox == <<aoi.x1, aoi.y1, aoi.x2, aoi.y2>>

\* C23: the process-API fetcher sends one request per item, whatever the number
\* of assets the item declares: every attempt of the item's fetch sends that one
\* request again (an item fetched on the first attempt has been requested once),
\* its bounds are the bounding box of the area of interest and its time range
\* starts and ends at the item's timestamp.
C23_OneRequestPerItem ==
    mode \in ShModes =>
        /\ \A p \in sh_posts :
             \E i \in DOMAIN items0 :
                 /\ items0[i].id = p.item
                 /\ p.payload.bbox = AoiBbox
                 /\ p.payload.from = items0[i].datetime
                 /\ p.payload.to = items0[i].datetime
        /\ \A i \in DOMAIN items0 :
             LET posts == PostsOf(items0[i].id)
             IN  /\ Cardinality({p.payload : p \in posts}) <= 1
                 /\ {p.attempt : p \in posts} = 1..Cardinality(posts)
                 /\ Cardinality(posts) <= ShTries(mode)
        /\ pc \in {"sh_fetch", "raised"} =>
             Cardinality(PostsOf(item_modified.id)) = sh.retry.calls
        /\ \A j \in DOMAIN results :
             \E i \in DOMAIN items0 :
                 /\ ItemPath(items0[i].id) = results[j]
                 /\ PostsOf(items0[i].id) # {}

\* every item has been fetched and one of them, which declares two assets, with
\* a single request
C23_Witness ==
    /\ mode \in ShModes
    /\ pc = "returned"
    /\ \E i \in DOMAIN items0 :
         /\ Len(items0[i].assets) = 2
         /\ \E p \in sh_posts : p.item = items0[i].id /\ p.payload.bbox = AoiBbox
         /\ Cardinality(PostsOf(items0[i].id)) = 1

-----------------------------------------------------------------------------
(* C26 *)

\* C26: as long as no attempt of a task has succeeded, its asset record is the
\* one the task was created with: href still names the remote file and the proj
\* fields are those of the source, whatever the failed attempts left on disk.
C26_FailureKeepsAsset ==
    \A k \in DOMAIN tasks :
        tasks[k].status # "finished" =>
            tasks[k].asset = DictGet(item_modified.assets, k)

\* a task is about to be tried again after an attempt that broke while the
\* output file was written
C26_Witness ==
    \E k \in DOMAIN tasks :
        /\ tasks[k].status = "running"
        /\ tasks[k].retry.calls >= 1
        /\ tasks[k].retry.exc.kind = "io_error"
        /\ AssetFilename(item_modified.id, k) \in DOMAIN sizes
        /\ tasks[k].asset.href # AsPosix(AssetFilename(item_modified.id, k))

-----------------------------------------------------------------------------
(* C25 *)

\* C25 (as stated): whatever asset_rename is, the asset map of a written item
\* has one entry per retained asset of the item, the asset fetched for key k
\* being found under asset_rename.get(k, k). It does not hold when a renamed key
\* is the key of another asset of the item: one entry takes the place of the other
C25_RenameKeepsAll ==
    mode = "search" =>
        \A i \in DOMAIN items0 :
            LET item_path == ItemPath(items0[i].id)
                retained == PrepareItem(items0[i], clip, aoi).assets
            IN  item_path \in DOMAIN docs =>
                    /\ Len(docs[item_path].assets) = Len(retained)
                    /\ \A j \in DOMAIN retained :
                         \E a \in DOMAIN docs[item_path].assets :
                             docs[item_path].assets[a].key = RenameGet(asset_rename, retained[j].key)

-----------------------------------------------------------------------------
(* join and join_v2 (stac/join.py): the checks, the output directory, the merge *)

\* what the output directory may hold when the command is run: it does not
\* exist, it is empty, it holds the files of an earlier run
OutputDirs ==
    {NoOutputDir, [exists |-> TRUE, entries |-> {}], [exists |-> TRUE, entries |-> {"old.json"}]}

\* the entries of a catalog directory that holds a catalog.json
CatalogEntries == {"catalog.json", "items"}

\* join takes two catalog directories, join_v2 one or more (the option is required);
\* a directory is described by whether catalog.json exists under it. output_dir is
\* the option given or LOCAL_DATA_DIR / "stac-join"
InitJoinCall ==
    \E fn \in {"join", "join_v2"}, n \in 1..MaxCatalogs, given \in BOOLEAN, o \in OutputDirs :
        /\ fn = "join" => n = 2
        /\ \E dirs \in [1..n -> BOOLEAN] :
             joincall = [NoJoinCall EXCEPT !.fn = fn, !.dirs = dirs,
                                           !.path = IF given THEN "output_dir" ELSE "data/stac-join",
                                           !.pc = "verify", !.k = 1,
                                           !.before = o, !.output_dir = o]

RaiseValueErrorAfterMkdir(jc) ==
    [jc EXCEPT !.pc = "raised", !.error = "ValueError", !.output_dir.exists = TRUE]

\* raise ValueError("catalog.json does not exist under ..."): nothing else is done
RaiseValueError(jc) == [jc EXCEPT !.pc = "raised", !.error = "ValueError"]

\* "Verify catalog.json exists": the directories are checked in the order given
JoinVerify ==
    /\ joincall.pc = "verify"
    /\ joincall.k <= Len(joincall.dirs)
    /\ joincall' = IF joincall.dirs[joincall.k]
                   THEN [joincall EXCEPT !.k = @ + 1]
                   ELSE RaiseValueError(joincall)
    /\ UNCHANGED <<pipeline, call, split, clipjob, geojson, polygon, catalogs, jpc, jidx, out_fs, merged, saved>>

\* output_dir.mkdir(exist_ok=True, parents=True)
Mkdir(dir) == [dir EXCEPT !.exists = TRUE]

\* every directory has passed the check: the output directory is made; join_v2
\* goes on to the copy when it was given a single directory
JoinMkdir ==
    /\ joincall.pc = "verify"
    /\ joincall.k > Len(joincall.dirs)
    /\ joincall' = [joincall EXCEPT
                      !.output_dir = Mkdir(@),
                      !.pc = IF joincall.fn = "join_v2" /\ Len(joincall.dirs) = 1
                             THEN "copytree" ELSE "merge"]
    /\ UNCHANGED <<pipeline, call, split, clipjob, geojson, polygon, catalogs, jpc, jidx, out_fs, merged, saved>>

\* shutil.copytree(src, dst) with dirs_exist_ok left False: os.makedirs(dst) raises
\* FileExistsError when dst exists, else the entries of src are copied under dst
CopyTree(entries, dst) ==
    IF dst.exists
    THEN [raised |-> TRUE, dir |-> dst]
    ELSE [raised |-> FALSE, dir |-> [exists |-> TRUE, entries |-> entries]]

\* "Handle single catalog": the directory is copied to the output directory;
\* there is no return after the copy, the merge is what follows it
JoinCopyTree ==
    /\ joincall.pc = "copytree"
    /\ LET copied == CopyTree(CatalogEntries, joincall.output_dir)
       IN  joincall' = IF copied.raised
                       THEN [joincall EXCEPT !.pc = "raised", !.error = "FileExistsError"]
                       ELSE [joincall EXCEPT !.pc = "merge", !.output_dir = copied.dir]
    /\ UNCHANGED <<pipeline, call, split, clipjob, geojson, polygon, catalogs, jpc, jidx, out_fs, merged, saved>>

\* merge_stac_catalogs / merge_stac_catalogs_v2: the assets are copied under
\* source_data and the merged catalog is saved under the output directory
JoinMergeCatalogs ==
    /\ joincall.pc = "merge"
    /\ joincall' = [joincall EXCEPT
                      !.pc = "returned",
                      !.output_dir.entries = @ \cup {"source_data"} \cup CatalogEntries]
    /\ UNCHANGED <<pipeline, call, split, clipjob, geojson, polygon, catalogs, jpc, jidx, out_fs, merged, saved>>

InitJoinCommand ==
    /\ PipelineIdle
    /\ CallIdle
    /\ GeojsonIdle
    /\ JoinIdle
    /\ SplitIdle
    /\ ClipIdle
    /\ InitJoinCall

NextJoinCommand ==
    \/ JoinVerify
    \/ JoinMkdir
    \/ JoinCopyTree
    \/ JoinMergeCatalogs

SpecJoin == InitJoinCommand /\ [][NextJoinCommand]_vars

-----------------------------------------------------------------------------
(* C24 *)

\* C24 (as stated): join_v2 called with one catalog directory, which holds a
\* catalog.json, ends without error and leaves under the output directory the
\* entries of that directory and nothing the call added. It does not hold: the
\* copy is made onto the directory the function has just created
C24_SingleCatalogCopied ==
    (/\ joincall.fn = "join_v2"
     /\ Len(joincall.dirs) = 1
     /\ joincall.dirs[1]
     /\ joincall.pc \in {"returned", "raised"}) =>
        /\ joincall.pc = "returned"
        /\ joincall.error = ""
        /\ joincall.output_dir.entries = joincall.before.entries \cup CatalogEntries

-----------------------------------------------------------------------------
(* C28 *)

\* C28: join and join_v2 check every catalog directory before they write: as
\* long as a directory is unchecked, and when the ValueError of a missing
\* catalog.json is raised, the output directory is what it was before the call
\* (not created when it did not exist, its entries untouched when it did).
C28_VerifyBeforeWrite ==
    /\ joincall.error = "ValueError" =>
         /\ joincall.pc = "raised"
         /\ \E i \in DOMAIN joincall.dirs : ~joincall.dirs[i]
         /\ joincall.output_dir = joincall.before
    /\ joincall.output_dir # joincall.before =>
         \A i \in DOMAIN joincall.dirs : joincall.dirs[i]
    /\ (joincall.pc = "verify" /\ joincall.k <= Len(joincall.dirs)) =>
         joincall.output_dir = joincall.before

\* join_v2 has raised ValueError for its last directory, after the first ones
\* passed the check, and the output directory still does not exist
C28_Witness ==
    /\ joincall.fn = "join_v2"
    /\ joincall.error = "ValueError"
    /\ Len(joincall.dirs) = MaxCatalogs
    /\ joincall.dirs[1]
    /\ ~joincall.dirs[MaxCatalogs]
    /\ ~joincall.before.exists
    /\ ~joincall.output_dir.exists

-----------------------------------------------------------------------------
(* split_s2_ard_cogs_into_separate_assets under retry(tries=3, delay=3, backoff=2) *)

\* the item files download_search_results returned: each JSON has the "cog" asset
\* and no band asset, each COG is on disk and no band raster is
InitSplitCall ==
    \E n \in 1..MaxSplitFiles :
        split = [NoSplit EXCEPT !.pc = "called", !.retry = RetryInit(TRIES), !.f = 1,
                                !.docs = [i \in 1..n |-> [cog |-> TRUE, bands |-> 0]],
                                !.cogs = [i \in 1..n |-> TRUE],
                                !.tifs = [i \in 1..n |-> 0]]

\* an exception leaves the body: the decorator counts it and, when a try is left,
\* calls the function again, which starts over at the first file
SplitFailed(sp, kind) ==
    LET exc == [kind |-> kind, status |-> 0, text |-> "", attempt |-> sp.retry.calls + 1]
        r == RetryOnFailure(sp.retry, exc)
    IN  [sp EXCEPT !.retry = r,
                   !.pc = IF r.tries = 0 THEN "raised" ELSE "called",
                   !.error = IF r.tries = 0 THEN exc ELSE @,
                   !.faults = IF kind = "io_error" THEN @ + 1 ELSE @,
                   !.f = 1, !.band = 0, !.item = NoSplitItem]

\* Item.from_file(fp); item.assets.pop("cog"); rioxarray.open_rasterio(cog_fp):
\* pop raises KeyError when the JSON has no "cog" asset
SplitOpen ==
    /\ split.pc = "called"
    /\ split.f <= Len(split.docs)
    /\ split.band = 0
    /\ \E outcome \in {"ok", "io_error"} :
         split' = IF ~split.docs[split.f].cog
                  THEN SplitFailed(split, "KeyError")
                  ELSE IF outcome = "io_error" \/ ~split.cogs[split.f]
                  THEN SplitFailed(split, "io_error")
                  ELSE [split EXCEPT !.item = [cog |-> FALSE, bands |-> split.docs[split.f].bands],
                                     !.band = 1]
    /\ UNCHANGED <<pipeline, call, joincall, clipjob, geojson, polygon, catalogs, jpc, jidx, out_fs, merged, saved>>

\* fp.write_text(json.dumps(item.to_dict())): the last statement of the band loop
WriteJson(sp) == [sp.docs EXCEPT ![sp.f] = sp.item]

\* one turn of the band loop: the band raster is written, the asset is added to
\* the item and the item is written over its JSON file
SplitBand ==
    /\ split.pc = "called"
    /\ split.band \in 1..CogBands
    /\ \E outcome \in {"ok", "io_error"} :
         split' = IF outcome = "io_error"
                  THEN SplitFailed(split, "io_error")
                  ELSE LET added == [split EXCEPT !.item.bands = Max(@, split.band),
                                                  !.tifs[split.f] = Max(@, split.band)]
                       IN  [added EXCEPT !.docs = WriteJson(added), !.band = @ + 1]
    /\ UNCHANGED <<pipeline, call, joincall, clipjob, geojson, polygon, catalogs, jpc, jidx, out_fs, merged, saved>>

\* cog_fp.unlink() after the band loop, then the next file
SplitUnlink ==
    /\ split.pc = "called"
    /\ split.band > CogBands
    /\ split' = [split EXCEPT !.cogs[split.f] = FALSE, !.f = @ + 1, !.band = 0,
                              !.item = NoSplitItem]
    /\ UNCHANGED <<pipeline, call, joincall, clipjob, geojson, polygon, catalogs, jpc, jidx, out_fs, merged, saved>>

\* the list is exhausted: the function returns
SplitReturn ==
    /\ split.pc = "called"
    /\ split.f > Len(split.docs)
    /\ split' = [split EXCEPT !.pc = "returned", !.retry = RetryOnSuccess(@)]
    /\ UNCHANGED <<pipeline, call, joincall, clipjob, geojson, polygon, catalogs, jpc, jidx, out_fs, merged, saved>>

InitSplit ==
    /\ PipelineIdle
    /\ CallIdle
    /\ GeojsonIdle
    /\ JoinIdle
    /\ JoinCallIdle
    /\ ClipIdle
    /\ InitSplitCall

NextSplit ==
    \/ SplitOpen
    \/ SplitBand
    \/ SplitUnlink
    \/ SplitReturn

SpecSplit == InitSplit /\ [][NextSplit]_vars

-----------------------------------------------------------------------------
(* C27 *)

\* C27 (as stated): a call of the split whose attempts did not all meet a fault
\* of their own returns, and when it returns every item file has the band
\* assets and no "cog" asset, every band raster is on disk and every COG is
\* removed. It does not hold: an attempt that follows a fault met after the
\* first JSON was rewritten finds no "cog" asset to pop
C27_SplitIdempotent ==
    /\ split.pc = "raised" => split.faults = TRIES
    /\ split.pc = "returned" =>
         \A i \in DOMAIN split.docs :
             /\ split.docs[i] = [cog |-> FALSE, bands |-> CogBands]
             /\ split.tifs[i] = CogBands
             /\ ~split.cogs[i]

-----------------------------------------------------------------------------
(* clip_stac_items (workflows/stac/clip.py, eodh_workflows/workflows/raster/clip.py) *)

\* paths are sequences of segments; an href stored in an item JSON is relative
\* to the directory of the item: up levels up, then the segments
ItemDir(root, id) == <<root, id>>

\* the absolute path a relative href stands for (make_all_asset_hrefs_absolute)
Resolve(base, href) == SubSeq(base, 1, Len(base) - href.up) \o href.segs

\* the number of leading segments two paths share
Common(path, base) ==
    CHOOSE k \in 0..Min(Len(path), Len(base)) :
        /\ SubSeq(path, 1, k) = SubSeq(base, 1, k)
        /\ k < Min(Len(path), Len(base)) => path[k + 1] # base[k + 1]

\* the href that stands for path, seen from the directory base (make_all_asset_hrefs_relative)
RelativeTo(path, base) ==
    LET k == Common(path, base)
    IN  [up |-> Len(base) - k, segs |-> SubSeq(path, k + 1, Len(path))]

\* the assets the items are made of; roles is {} for an asset without roles
ClipAssets ==
    [data |-> [key |-> "data", roles |-> {"data"}, href |-> [up |-> 0, segs |-> <<"data.tif">>],
               size |-> "source", proj |-> "declared"],
     visual |-> [key |-> "visual", roles |-> {"data", "visual"},
                 href |-> [up |-> 0, segs |-> <<"visual.tif">>], size |-> NONE, proj |-> NONE],
     thumbnail |-> [key |-> "thumbnail", roles |-> {"thumbnail"},
                    href |-> [up |-> 1, segs |-> <<"thumb.png">>], size |-> "source", proj |-> NONE],
     metadata |-> [key |-> "metadata", roles |-> {},
                   href |-> [up |-> 0, segs |-> <<"meta.xml">>], size |-> NONE, proj |-> NONE]]

\* the asset maps of the items of a catalog to clip: with and without data assets
ClipAssetMaps ==
    { <<>>,
      <<ClipAssets.thumbnail>>,
      <<ClipAssets.data>>,
      <<ClipAssets.data, ClipAssets.thumbnail>>,
      <<ClipAssets.visual, ClipAssets.metadata>> }

ClipAreas == {Rect(0, 0, 1, 1), Rect(1, 1, 2, 3)}

\* a self-contained catalog under input_stac, an area, and which of the two
\* modules is run
InitClipCall ==
    \E m \in {"workflows/stac/clip", "workflows/raster/clip"}, area \in ClipAreas, n \in 1..MaxClipItems :
        \E a \in [1..n -> ClipAssetMaps] :
            clipjob = [NoClipJob EXCEPT
                         !.module = m, !.pc = "called", !.area = area,
                         !.input = [i \in 1..n |->
                                      [id |-> ItemIds[i], geometry |-> CoreFootprint,
                                       bbox |-> Bounds(CoreFootprint).box, assets |-> a[i]]]]

\* read_local_stac: the catalog is read and its asset hrefs are made absolute
ReadLocalStac(catalog, root) ==
    [i \in DOMAIN catalog |->
       [catalog[i] EXCEPT !.assets =
          [j \in DOMAIN @ |-> [@[j] EXCEPT !.href = Resolve(ItemDir(root, catalog[i].id), @)]]]]

\* output_dir.mkdir, gejson_to_polygon, read_local_stac
ClipRead ==
    /\ clipjob.pc = "called"
    /\ clipjob' = [clipjob EXCEPT !.items = ReadLocalStac(clipjob.input, "input_stac"),
                                  !.i = 1, !.a = 1, !.pc = "loop"]
    /\ UNCHANGED <<pipeline, call, joincall, split, geojson, polygon, catalogs, jpc, jidx, out_fs, merged, saved>>

AnyRole(asset) == asset.roles # {}

\* asset.roles and "data" in asset.roles
HasDataRole(asset) == asset.roles # {} /\ "data" \in asset.roles

\* output_dir / asset_path.relative_to(input_stac)
ClippedPath(asset_path) == <<"output_dir">> \o Tail(asset_path)

\* the asset after its raster has been clipped: href, size when the asset has
\* one; raster/clip.py also writes proj:shape and proj:transform when the asset
\* has one of them, with the values it reads from the source raster
ClippedAsset(asset, module) ==
    [asset EXCEPT !.href = ClippedPath(@),
                  !.size = IF @ # NONE THEN "clipped" ELSE @,
                  !.proj = IF @ # NONE /\ module = "workflows/raster/clip"
                           THEN "source raster" ELSE @]

\* one turn of the loop over the assets of the item: a data asset is clipped,
\* which may raise, and updated; any other asset is passed over
ClipAsset ==
    /\ clipjob.pc = "loop"
    /\ clipjob.i <= Len(clipjob.items)
    /\ clipjob.a <= Len(clipjob.items[clipjob.i].assets)
    /\ LET asset == clipjob.items[clipjob.i].assets[clipjob.a]
       IN  IF HasDataRole(asset)
           THEN \E outcome \in {"ok", "error"} :
                  clipjob' = IF outcome = "ok"
                             THEN [clipjob EXCEPT
                                     !.items[clipjob.i].assets[clipjob.a] = ClippedAsset(asset, clipjob.module),
                                     !.clipped = @ \cup {ClippedPath(asset.href)},
                                     !.a = @ + 1]
                             ELSE [clipjob EXCEPT !.pc = "raised"]
           ELSE clipjob' = [clipjob EXCEPT !.a = @ + 1]
    /\ UNCHANGED <<pipeline, call, joincall, split, geojson, polygon, catalogs, jpc, jidx, out_fs, merged, saved>>

\* after the assets of the item: item.geometry = mapping(aoi_polygon),
\* item.bbox = list(aoi_polygon.bounds)
ClipItemGeometry ==
    /\ clipjob.pc = "loop"
    /\ clipjob.i <= Len(clipjob.items)
    /\ clipjob.a > Len(clipjob.items[clipjob.i].assets)
    /\ clipjob' = [clipjob EXCEPT !.items[clipjob.i].geometry = clipjob.area,
                                  !.items[clipjob.i].bbox = Bounds(clipjob.area).box,
                                  !.i = @ + 1, !.a = 1]
    /\ UNCHANGED <<pipeline, call, joincall, split, geojson, polygon, catalogs, jpc, jidx, out_fs, merged, saved>>

\* write_local_stac: the asset hrefs are made relative to the items where they
\* were read, then normalize_and_save moves the items under the new root, which
\* rewrites each relative href so that it still names the same file
WriteLocalStac(catalog, old_root, new_root) ==
    [i \in DOMAIN catalog |->
       LET old_dir == ItemDir(old_root, catalog[i].id)
           new_dir == ItemDir(new_root, catalog[i].id)
       IN  [catalog[i] EXCEPT !.assets =
              [j \in DOMAIN @ |->
                 [@[j] EXCEPT !.href = RelativeTo(Resolve(old_dir, RelativeTo(@, old_dir)), new_dir)]]]]

\* the loop is exhausted: the catalog is written under output_dir
ClipSave ==
    /\ clipjob.pc = "loop"
    /\ clipjob.i > Len(clipjob.items)
    /\ clipjob' = [clipjob EXCEPT !.saved = WriteLocalStac(clipjob.items, "input_stac", "output_dir"),
                                  !.pc = "returned"]
    /\ UNCHANGED <<pipeline, call, joincall, split, geojson, polygon, catalogs, jpc, jidx, out_fs, merged, saved>>

InitClip ==
    /\ PipelineIdle
    /\ CallIdle
    /\ GeojsonIdle
    /\ JoinIdle
    /\ JoinCallIdle
    /\ SplitIdle
    /\ InitClipCall

NextClip ==
    \/ ClipRead
    \/ ClipAsset
    \/ ClipItemGeometry
    \/ ClipSave

SpecClip == InitClip /\ [][NextClip]_vars

-----------------------------------------------------------------------------
(* C29 *)

\* the file an asset of the catalog read names
SourceFile(id, asset) == Resolve(ItemDir("input_stac", id), asset.href)

\* the file an asset of the catalog written names
SavedFile(id, asset) == Resolve(ItemDir("output_dir", id), asset.href)

\* C29: in the catalog clip_stac_items writes, an asset whose roles do not
\* contain "data" (or that has no roles) is the asset that was read: same key,
\* roles, size and proj fields, and an href that names the same file; an asset
\* whose roles contain "data" names the clipped raster under the output
\* directory and its size, when it had one, is that of the clipped raster; the
\* geometry and bbox of every item are the AOI polygon and its bounds. While
\* the loop runs, the assets and items it has not reached are as they were read.
C29_OnlyDataAssetsChange ==
    /\ clipjob.pc = "returned" =>
         /\ Len(clipjob.saved) = Len(clipjob.input)
         /\ \A i \in DOMAIN clipjob.input :
              LET before == clipjob.input[i]
                  after == clipjob.saved[i]
              IN  /\ after.id = before.id
                  /\ after.geometry = clipjob.area
                  /\ after.bbox = <<clipjob.area.x1, clipjob.area.y1, clipjob.area.x2, clipjob.area.y2>>
                  /\ Len(after.assets) = Len(before.assets)
                  /\ \A j \in DOMAIN before.assets :
                       LET b == before.assets[j]
                           a == after.assets[j]
                       IN  /\ a.key = b.key
                           /\ a.roles = b.roles
                           /\ IF "data" \in b.roles
                              THEN /\ SavedFile(after.id, a) = <<"output_dir">> \o Tail(SourceFile(before.id, b))
                                   /\ SavedFile(after.id, a) \in clipjob.clipped
                                   /\ a.size = IF b.size = NONE THEN NONE ELSE "clipped"
                              ELSE /\ SavedFile(after.id, a) = SourceFile(before.id, b)
                                   /\ a.size = b.size
                                   /\ a.proj = b.proj
    /\ clipjob.pc \in {"loop", "raised"} =>
         \A i \in DOMAIN clipjob.items :
             /\ \A j \in DOMAIN clipjob.items[i].assets :
                  LET b == clipjob.input[i].assets[j]
                  IN  "data" \notin b.roles =>
                          clipjob.items[i].assets[j] = [b EXCEPT !.href = SourceFile(clipjob.input[i].id, b)]
             /\ i < clipjob.i => clipjob.items[i].geometry = clipjob.area

\* a catalog has been written in which an item without data assets has the
\* geometry of the area and its thumbnail, and another item a clipped data asset
C29_Witness ==
    /\ clipjob.pc = "returned"
    /\ clipjob.area # CoreFootprint
    /\ \E i \in DOMAIN clipjob.saved :
         /\ clipjob.input[i].assets = <<ClipAssets.thumbnail>>
         /\ clipjob.saved[i].geometry = clipjob.area
         /\ SavedFile(clipjob.saved[i].id, clipjob.saved[i].assets[1]) = <<"input_stac", "thumb.png">>
    /\ \E i \in DOMAIN clipjob.saved :
         \E j \in DOMAIN clipjob.saved[i].assets :
             /\ "data" \in clipjob.input[i].assets[j].roles
             /\ clipjob.saved[i].assets[j].size = "clipped"

-----------------------------------------------------------------------------
(* C30 *)

\* the source file of the asset a merged item holds under key: the asset of
\* that key of the item in catalog 2 when it has one (it is added over the
\* first), else the one of the item in catalog 1
OwnSource(id, key) ==
    LET from2 == SelectSeq(AssetsOf(catalogs[2], id), LAMBDA a : a.key = key)
        from1 == SelectSeq(AssetsOf(catalogs[1], id), LAMBDA a : a.key = key)
    IN  IF from2 # <<>> THEN from2[1].href ELSE from1[1].href

\* C30 (as stated): in the saved catalog every asset names a copied file that
\* holds the content of that asset's own source file, and no two assets of an
\* item name the same file. It does not hold when two assets of one item id
\* have source files of the same name: they are copied onto one file
C30_OwnCopy ==
    jpc = "done" =>
        \A i \in DOMAIN saved :
            /\ \A j \in DOMAIN saved[i].assets :
                 LET file == Resolved(saved[i].id, saved[i].assets[j].href)
                 IN  /\ file \in DOMAIN out_fs
                     /\ out_fs[file] = OwnSource(saved[i].id, saved[i].assets[j].key)
            /\ \A j, k \in DOMAIN saved[i].assets :
                 j # k => saved[i].assets[j].href # saved[i].assets[k].href

====
